---- MODULE Spec2Model ----
(***************************************************************************)
(* PQS (Project Quick Start): the materialization pipeline of              *)
(* src/src/index.js (class PQS), modelled as a state machine.              *)
(*                                                                         *)
(* Text is a sequence of one-character strings.  A path inside a template  *)
(* or output tree is a sequence of segment names.  File content is a       *)
(* sequence of tokens: literal text, a {{PQS:...}} placeholder or a block  *)
(* marker.                                                                 *)
(***************************************************************************)
EXTENDS Integers, Sequences, FiniteSets, TLC

VARIABLES
  pc,          \* position of createProject
  template,    \* the descriptor createProject looked up (None before)
  options,     \* the options object createProject was called with
  answers,     \* askQuestions' local `answers`
  qi,          \* index of the question askQuestions is at
  prompted,    \* prompt calls made so far: <<[q, result]>>
  outputPath,  \* createProject's local `outputPath` (None before)
  outDir,      \* the directory at the resolved output path
  outDir0,     \* that directory as it was when createProject was called
  si,          \* index of the step createProject's loop is at
  stepTrace,   \* what happened to each step the loop reached
  console,     \* the dry-run reports printed
  effects,     \* filesystem mutations and commands executed, in order
  uuids,       \* how many identifiers generateUUID has returned so far
  \* a replace step's loop over the files of an output directory
  sTree,       \* the files as copyTemplate left them
  sValues,     \* the values object handed to processReplaceStep
  sFiles,      \* the files now
  sNext,       \* index of the file the loop is at
  sRuns,       \* the files each earlier run over the same tree ended with
  \* discoverTemplates
  dWorld,      \* the configured template locations, in order, as they are
  registry,    \* this.templates: name -> descriptor
  dpc,         \* position of discoverTemplates
  di,          \* index of the source the loop is at
  dWarnings,   \* how many warnings were logged
  dSeen,       \* this.templates as each completed pass left it
  \* the cache of cloned repositories, ~/.pqs/cache
  cIndex,      \* the file .cache-index.json: its state and its document
  cDirs,       \* the cache directories that exist: cache key -> content
  cNow,        \* the clock, in days
  cCalls,      \* how many calls of the fetcher were made
  cCall,       \* the calls under way or over: invocation -> its frame
  \* the helpers called on their own
  uCall        \* one call of a helper: its name, argument and result

pipelineVars == <<pc, template, options, answers, qi, prompted, outputPath,
                  outDir, outDir0, si, stepTrace, console, effects>>

substVars == <<sTree, sValues, sFiles, sNext, sRuns>>

discoveryVars == <<dWorld, registry, dpc, di, dWarnings, dSeen>>

cacheVars == <<cIndex, cDirs, cNow, cCalls, cCall>>

\* what createProject does not touch, but for the identifier generator
offstage == <<substVars, discoveryVars, cacheVars, uCall>>

\* what the replace loop does not touch, but for the identifier generator
outsideSubst == <<pipelineVars, discoveryVars, cacheVars, uCall>>

outsideDiscovery == <<pipelineVars, uuids, substVars, cacheVars, uCall>>

outsideCache == <<pipelineVars, uuids, substVars, discoveryVars, uCall>>

outsideHelpers == <<pipelineVars, uuids, substVars, discoveryVars, cacheVars>>

vars == <<pipelineVars, uuids, substVars, discoveryVars, cacheVars, uCall>>

None == "none"

\* Bounds of the model.
MaxQuestions == 2
MaxSteps == 2
MaxTokens == 3
MaxRuns == 2
MaxLocations == 2
MaxPasses == 2
MaxCalls == 3
MaxDay == 10

\* ------------------------------------------------------------------ text

\* the upper-case letters that occur in the texts of the model
LowerOf ==
  ("A" :> "a") @@ ("B" :> "b") @@ ("F" :> "f") @@ ("M" :> "m") @@
  ("H" :> "h") @@ ("P" :> "p") @@ ("W" :> "w")

\* String.prototype.toLowerCase, per character
ToLowerChar(c) == IF c \in DOMAIN LowerOf THEN LowerOf[c] ELSE c

ToLowerCase(text) == [i \in 1..Len(text) |-> ToLowerChar(text[i])]

\* \s of the regular expressions
SpaceChars == {" ", "\t"}

\* [a-z0-9]
LowerAlnumChars ==
  {"a", "b", "c", "d", "e", "f", "g", "h", "i", "j", "k", "l", "m", "n", "o",
   "p", "q", "r", "s", "t", "u", "v", "w", "x", "y", "z",
   "0", "1", "2", "3", "4", "5", "6", "7", "8", "9"}

\* text.replace(/[^a-z0-9\s-]/g, '')
StripNonSlugChars(text) ==
  SelectSeq(text, LAMBDA c : c \in LowerAlnumChars \cup SpaceChars \cup {"-"})

\* text.replace(/[class]+/g, '-'): every maximal run of characters of the
\* class becomes one hyphen
RECURSIVE ReplaceRuns(_, _)
ReplaceRuns(text, class) ==
  IF text = <<>> THEN <<>>
  ELSE IF text[1] \in class
       THEN IF Len(text) > 1 /\ text[2] \in class
            THEN ReplaceRuns(Tail(text), class)
            ELSE <<"-">> \o ReplaceRuns(Tail(text), class)
       ELSE <<text[1]>> \o ReplaceRuns(Tail(text), class)

\* text.replace(/^-|-$/g, ''): one hyphen at the start, and one at the end
\* when it is not the hyphen already taken at the start
TrimHyphens(text) ==
  LET n == Len(text)
      dropFirst == n > 0 /\ text[1] = "-"
      dropLast == n > 1 /\ text[n] = "-"
      from == IF dropFirst THEN 2 ELSE 1
      to == IF dropLast THEN n - 1 ELSE n
  IN  SubSeq(text, from, to)

\* transformText(text, 'SLUG')
TransformSlug(text) ==
  TrimHyphens(
    ReplaceRuns(
      ReplaceRuns(StripNonSlugChars(ToLowerCase(text)), SpaceChars),
      {"-"}))

\* --------------------------------------------------------- substitution

Lit(text) == [lit |-> text]
Ph(key) == [ph |-> key]

\* A JavaScript value of an answer, a flag or a default: a string or a
\* boolean.  A key that is undefined is a key outside the object's DOMAIN.
Text(chars) == [str |-> chars]
Bool(b) == [bool |-> b]

IsText(value) == "str" \in DOMAIN value

\* JavaScript truthiness: '' and false are falsy
Truthy(value) == IF IsText(value) THEN value.str # <<>> ELSE value.bool

\* obj[key] is truthy (undefined is falsy)
HasTruthy(obj, key) == key \in DOMAIN obj /\ Truthy(obj[key])

\* String(value): a boolean prints as true / false
StringOf(value) ==
  IF IsText(value) THEN value.str
  ELSE IF value.bool THEN <<"t", "r", "u", "e">>
  ELSE <<"f", "a", "l", "s", "e">>

\* {{PQS:fn(arg)}}; arg is "" for empty parentheses
Call(fn, arg) == [fn |-> fn, arg |-> arg]

\* a block marker {{#PQS:cond}}, {{^PQS:cond}} or {{/PQS:cond}}
Mark(sigil, cond) == [sigil |-> sigil, cond |-> cond]

\* the text of the n-th identifier generateUUID returned
UuidText(n) == [uuid |-> n]

\* the text between {{PQS: and }} of a token
PlaceholderOf(token) ==
  IF "ph" \in DOMAIN token THEN token.ph
  ELSE token.fn \o "(" \o token.arg \o ")"

\* /\{\{PQS:([^}]+)\}\}/ matches the token: the braces are followed by PQS:
\* at once (no sigil) and by at least one character
IsPqsToken(token) ==
  /\ ("ph" \in DOMAIN token \/ "fn" \in DOMAIN token)
  /\ PlaceholderOf(token) # ""

\* placeholder.match(/^(\w+)\(([^)]+)\)$/): a name, and parentheses around
\* at least one character
TransformMatch(token) ==
  "fn" \in DOMAIN token /\ token.fn # "" /\ token.arg # ""

\* a to z
LowerLetters ==
  <<"a", "b", "c", "d", "e", "f", "g", "h", "i", "j", "k", "l", "m", "n", "o",
    "p", "q", "r", "s", "t", "u", "v", "w", "x", "y", "z">>

\* String.prototype.toUpperCase
ToUpperCase(text) ==
  LET upper == <<"A", "B", "C", "D", "E", "F", "G", "H", "I", "J", "K", "L",
                 "M", "N", "O", "P", "Q", "R", "S", "T", "U", "V", "W", "X",
                 "Y", "Z">>
      at(c) == CHOOSE i \in 1..Len(LowerLetters) : LowerLetters[i] = c
  IN  [i \in 1..Len(text) |->
         IF \E k \in 1..Len(LowerLetters) : LowerLetters[k] = text[i]
         THEN upper[at(text[i])]
         ELSE text[i]]

\* [-_\s] of CAMEL and PASCAL
WordBreaks == {"-", "_"} \cup SpaceChars

\* the CAMEL replacement that drops the character after a run as well
CamelDroppingNext(text) == SelectSeq(text, LAMBDA c : c \notin WordBreaks)

\* text.replace(/[-_\s]+(.)?/g, (_, char) => char ? char.toUpperCase() : ''):
\* a maximal run of breaks and the character after it become that character
\* in upper case; a run at the end of the text becomes nothing
RECURSIVE TransformCamel(_)
TransformCamel(text) ==
  IF text = <<>> THEN <<>>
  ELSE IF text[1] \notin WordBreaks
       THEN <<text[1]>> \o TransformCamel(Tail(text))
       ELSE IF Len(text) = 1 THEN <<>>
       ELSE IF text[2] \in WordBreaks THEN TransformCamel(Tail(text))
       ELSE ToUpperCase(<<text[2]>>) \o TransformCamel(SubSeq(text, 3, Len(text)))

\* toLowerCase, /[_\s]+/g to '-', then /[^a-z0-9-]/g to ''
TransformKebab(text) ==
  SelectSeq(ReplaceRuns(ToLowerCase(text), {"_"} \cup SpaceChars),
            LAMBDA c : c \in LowerAlnumChars \cup {"-"})

\* the CAMEL replacement, then /^(.)/ to its upper case
TransformPascal(text) ==
  LET camel == TransformCamel(text)
  IN  IF camel = <<>> THEN <<>>
      ELSE ToUpperCase(<<camel[1]>>) \o Tail(camel)

\* transformText, for the transformations the templates and the calls of
\* the model name; a name transformText does not know returns the text as
\* it is
TransformText(text, transformation) ==
  CASE transformation = "UPPER" -> ToUpperCase(text)
    [] transformation = "LOWER" -> ToLowerCase(text)
    [] transformation = "CAMEL" -> TransformCamel(text)
    [] transformation = "KEBAB" -> TransformKebab(text)
    [] transformation = "PASCAL" -> TransformPascal(text)
    [] transformation = "SLUG" -> TransformSlug(text)
    [] OTHER -> text

\* formatDate(pattern): the current date printed by date-fns under the
\* pattern with the legacy fields converted (YYYY to yyyy, DD to dd); a
\* pattern is the sequence of its fields
FormatDate(pattern) ==
  [date |-> [i \in 1..Len(pattern) |->
               CASE pattern[i] = "YYYY" -> "yyyy"
                 [] pattern[i] = "DD" -> "dd"
                 [] OTHER -> pattern[i]]]

\* a callback that blanks the token it finds no value for
ReplaceTokenBlanking(token, values, fresh) ==
  IF TransformMatch(token) /\ token.fn = "UUID" THEN UuidText(fresh)
  ELSE IF TransformMatch(token) /\ token.arg \in DOMAIN values
       THEN Lit(TransformText(StringOf(values[token.arg]), token.fn))
       ELSE IF PlaceholderOf(token) \in DOMAIN values
            THEN Lit(StringOf(values[PlaceholderOf(token)]))
            ELSE Lit(<<>>)

\* the callback of performSubstitutions for one matched token; fresh is the
\* identifier generateUUID returns when the callback calls it
ReplaceToken(token, values, fresh) ==
  LET direct == IF PlaceholderOf(token) \in DOMAIN values
                THEN Lit(StringOf(values[PlaceholderOf(token)]))
                ELSE token
  IN  IF TransformMatch(token)
      THEN IF token.fn = "DATE" THEN FormatDate(<<token.arg>>)
           ELSE IF token.fn = "UUID" THEN UuidText(fresh)
           ELSE IF token.arg \in DOMAIN values
                THEN Lit(TransformText(StringOf(values[token.arg]), token.fn))
                ELSE direct
      ELSE direct

\* the number of tokens of the content for which the callback calls
\* generateUUID
UuidCalls(content) ==
  Cardinality({i \in 1..Len(content) :
                 /\ IsPqsToken(content[i])
                 /\ TransformMatch(content[i])
                 /\ content[i].fn = "UUID"})

\* performSubstitutions when `generated` identifiers have been generated
\* before: content.replace visits the matches left to right, so the k-th
\* UUID token gets the k-th identifier after those
PerformSubstitutions(content, values, generated) ==
  [i \in 1..Len(content) |->
     IF IsPqsToken(content[i])
     THEN ReplaceToken(content[i], values,
                       generated + UuidCalls(SubSeq(content, 1, i)))
     ELSE content[i]]

\* an overlay in which the object beneath wins
SpreadKeepingUnder(under, over) ==
  [k \in DOMAIN under \cup DOMAIN over |->
     IF k \in DOMAIN under THEN under[k] ELSE over[k]]

\* { ...(template.values ?? {}), ...answers }
Spread(under, over) ==
  [k \in DOMAIN under \cup DOMAIN over |->
     IF k \in DOMAIN over THEN over[k] ELSE under[k]]

\* ------------------------------------------------------ paths and globs

\* a name that begins with a dot
DotNames == {".hidden", ".git", ".gitignore"}

IsDot(name) == name \in DotNames

\* the segment patterns that contain glob characters (* ? [ ])
GlobSegs == {"**", "*"}

\* minimatch of one path segment against one non-globstar pattern segment
\* (dot option off: * does not match a name that begins with a dot)
MatchSeg(name, seg) ==
  IF seg = "*" THEN ~IsDot(name) ELSE name = seg

\* minimatch(file, pattern), both split at '/', dot option off: ** takes
\* zero or more segments, none beginning with a dot; a trailing ** needs at
\* least one segment
RECURSIVE Minimatch(_, _)
Minimatch(file, pattern) ==
  IF pattern = <<>> THEN file = <<>>
  ELSE IF file = <<>> THEN FALSE
  ELSE IF pattern[1] = "**"
       THEN IF Len(pattern) = 1
            THEN \A i \in 1..Len(file) : ~IsDot(file[i])
            ELSE \/ Minimatch(file, Tail(pattern))
                 \/ /\ ~IsDot(file[1])
                    /\ Minimatch(Tail(file), pattern)
       ELSE /\ MatchSeg(file[1], pattern[1])
            /\ Minimatch(Tail(file), Tail(pattern))

\* /[*?[\]]/.test(pattern)
HasGlobChars(pattern) == \E i \in 1..Len(pattern) : pattern[i] \in GlobSegs

\* pattern.replace('/**', ''): the first '/**' of the pattern text is cut
StripFirstGlobstar(pattern) ==
  LET hits == {i \in 2..Len(pattern) : pattern[i] = "**"}
  IN  IF hits = {} THEN pattern
      ELSE LET i == CHOOSE j \in hits : \A k \in hits : j <= k
           IN  SubSeq(pattern, 1, i - 1) \o SubSeq(pattern, i + 1, Len(pattern))

\* a normalisation under which every bare name excludes every file
NormalizeExcludeAsAnyFile(pattern) == <<"**", "*">>

\* copyTemplate's normalizedExcludePatterns: a pattern without glob
\* characters becomes **/pattern/**
NormalizeExclude(pattern) ==
  IF HasGlobChars(pattern) THEN pattern ELSE <<"**">> \o pattern \o <<"**">>

\* the test inside filesToCopy's filter
ExcludedBy(file, pattern) ==
  Minimatch(file, pattern) \/ Minimatch(file, StripFirstGlobstar(pattern))

\* a set as a sequence, in a fixed order
RECURSIVE SetToSeq(_)
SetToSeq(S) ==
  IF S = {} THEN <<>>
  ELSE LET x == CHOOSE y \in S : TRUE IN <<x>> \o SetToSeq(S \ {x})

RECURSIVE Flatten(_)
Flatten(seqs) ==
  IF seqs = <<>> THEN <<>> ELSE seqs[1] \o Flatten(Tail(seqs))

Range(seq) == {seq[i] : i \in 1..Len(seq)}

IsPrefix(p, q) == Len(p) <= Len(q) /\ SubSeq(q, 1, Len(p)) = p

\* -------------------------------------------------------------- the disk

EmptyFiles == [p \in {} |-> <<>>]

\* a directory tree: whether it exists, and its files (path -> content);
\* its subdirectories are the proper prefixes of its files' paths
Dir(exists, files) == [exists |-> exists, files |-> files]

SubDirs(files) ==
  UNION {{SubSeq(p, 1, n) : n \in 1..(Len(p) - 1)} : p \in DOMAIN files}

\* fs.readdir(outputPath).length > 0
HasEntries(dir) == DOMAIN dir.files # {}

\* glob('**/*', { cwd, dot: true, nodir: true }): every file of the tree
GlobAllFiles(files) == SetToSeq(DOMAIN files)

\* glob(pattern, { cwd }): the files and directories under cwd that the
\* pattern matches (dot option off); nothing when cwd does not exist
Glob(pattern, dir) ==
  IF ~dir.exists THEN <<>>
  ELSE SetToSeq({p \in DOMAIN dir.files \cup SubDirs(dir.files) :
                   Minimatch(p, pattern)})

\* the files of a tree that lie under directory `source`, relative to it
FilesUnder(files, source) ==
  [rel \in {SubSeq(p, Len(source) + 1, Len(p)) :
              p \in {q \in DOMAIN files :
                       IsPrefix(source, q) /\ Len(q) > Len(source)}} |->
     files[source \o rel]]

\* fs.copy of `paths` (relative to the source tree `from`) to below `dest`
CopyInto(dir, from, paths, dest) ==
  LET new == {dest \o p : p \in paths}
  IN  Dir(TRUE, [q \in DOMAIN dir.files \cup new |->
                   IF q \in new
                   THEN from[SubSeq(q, Len(dest) + 1, Len(q))]
                   ELSE dir.files[q]])

\* ------------------------------------------------------- the inputs

\* the JavaScript object {}
EmptyObject == [k \in {} |-> Bool(FALSE)]

NoCondition == [kind |-> "none"]

\* condition: answers => answers[key]
IfTruthy(key) == [kind |-> "truthy", key |-> key]

\* condition: answers => answers[key] === true
IfTrue(key) == [kind |-> "isTrue", key |-> key]

\* step.condition(answers) / question.condition(answers)
EvalCondition(condition, ans) ==
  CASE condition.kind = "truthy" -> HasTruthy(ans, condition.key)
    [] condition.kind = "isTrue" ->
         /\ condition.key \in DOMAIN ans
         /\ ~IsText(ans[condition.key])
         /\ ans[condition.key].bool
    [] OTHER -> TRUE

\* the files of the template directory
TemplateTree ==
  (<<"a.txt">> :> <<Lit(<<"h", "i", " ">>), Ph("projectName")>>) @@
  (<<"src", "b.js">> :> <<Ph("name"), Ph("first"), Call("UPPER", "name")>>) @@
  (<<"secret.txt">> :> <<Lit(<<"s">>)>>) @@
  (<<".hidden", "secret.txt">> :> <<Lit(<<"s">>)>>) @@
  (<<"extra", "c.txt">> :> <<Ph("second")>>) @@
  (<<"extra", "d.log">> :> <<Lit(<<"l">>)>>) @@
  (<<".gitignore">> :> <<Lit(<<"g">>)>>) @@
  (<<".git", "config">> :> <<Lit(<<"c">>)>>)

ConfirmFirst ==
  [name |-> "first", argument |-> None, type |-> "confirm",
   condition |-> NoCondition]

QuestionPool ==
  { [name |-> "projectName", argument |-> "name", type |-> "input",
     condition |-> NoCondition],
    ConfirmFirst,
    [name |-> "second", argument |-> None, type |-> "input",
     condition |-> IfTrue("first")],
    [name |-> "name", argument |-> None, type |-> "input",
     condition |-> NoCondition],
    [name |-> "project", argument |-> None, type |-> "input",
     condition |-> NoCondition] }

ReplaceEverything ==
  [type |-> "replace", files |-> << <<"**", "*">> >>,
   condition |-> NoCondition]

StepPool ==
  { ReplaceEverything,
    [type |-> "replace", files |-> << <<"a.txt">>, <<"src", "*">> >>,
     condition |-> IfTruthy("first")],
    [type |-> "command", command |-> "npm install",
     condition |-> NoCondition],
    [type |-> "command", command |-> "git init",
     condition |-> IfTruthy("first")],
    [type |-> "copy", source |-> <<"extra">>, destination |-> <<>>,
     exclude |-> << <<"d.log">> >>, condition |-> NoCondition],
    [type |-> "copy", source |-> <<"extra", "c.txt">>,
     destination |-> <<"c.txt">>, exclude |-> <<>>,
     condition |-> IfTruthy("first")] }

\* the sequences over S of length at most n
SeqsUpTo(S, n) == UNION {[1..k -> S] : k \in 0..n}

DistinctNames(qs) ==
  \A i, j \in 1..Len(qs) : i # j => qs[i].name # qs[j].name

QuestionLists == {qs \in SeqsUpTo(QuestionPool, MaxQuestions) : DistinctNames(qs)}

StepLists == SeqsUpTo(StepPool, MaxSteps)

FooBar == <<"F", "o", "o", " ", "B", "a", "r">>
MyApp == <<"M", "y", "-", "A", "p", "p">>

ValueSets == { EmptyObject, "name" :> Text(<<"x">>) }

ExcludeLists ==
  { <<>>, << <<"extra">>, <<"secret.txt">> >>, << <<".git">> >> }

\* what the user may type at an input prompt, what a confirm may return
PromptAnswers(type) ==
  IF type = "confirm" THEN {Bool(TRUE), Bool(FALSE)}
  ELSE {Text(<<>>), Text(FooBar), Text(<<"!">>)}

\* the options object commander hands to createProject: the built-in
\* options and the template flags, each present only when given
BuiltInOptionSets ==
  { Spread(Spread(o, f), d) :
      o \in {EmptyObject, "output" :> Text(<<"o", "u", "t">>)},
      f \in {EmptyObject, "force" :> Bool(TRUE)},
      d \in {EmptyObject, "dryRun" :> Bool(TRUE)} }

FlagSets ==
  { EmptyObject, "name" :> Text(MyApp), "first" :> Text(<<"y">>) }

InitialDirs ==
  { Dir(FALSE, EmptyFiles),
    Dir(TRUE, EmptyFiles),
    Dir(TRUE, <<"a.txt">> :> <<Lit(<<"o", "l", "d">>), Ph("projectName")>>) }

\* ------------------------------------------------------ createProject

\* getCliArgs: the options that are not built-in CLI options
BuiltInOptions == {"output", "force", "dryRun"}

GetCliArgs(opts) == [k \in DOMAIN opts \ BuiltInOptions |-> opts[k]]

CurrentQuestion == template.questions[qi]

\* askQuestions with the lookup by argument name left out
CliKeyForNameOnly(question, cliArgs) ==
  IF question.name \in DOMAIN cliArgs THEN question.name ELSE None

\* askQuestions' two CLI tests: by argument name first, then by question name
CliKeyFor(question, cliArgs) ==
  IF question.argument # None /\ question.argument \in DOMAIN cliArgs
  THEN question.argument
  ELSE IF question.name \in DOMAIN cliArgs THEN question.name
  ELSE None

\* path.resolve(process.cwd(), name): a path is a sequence of names
Cwd == << <<"w", "d">> >>

Resolve(name) == IF name = <<>> THEN Cwd ELSE Cwd \o <<name>>

DefaultProjectName == <<"n", "e", "w", "-", "p", "r", "o", "j", "e", "c", "t">>

\* the project name looked up in the defaults merged under the answers
ProjectNameOfWithDefaults(ans) ==
  LET merged == Spread(template.values, ans)
  IN  IF HasTruthy(merged, "projectName") THEN merged["projectName"]
      ELSE IF HasTruthy(merged, "name") THEN merged["name"]
      ELSE IF HasTruthy(merged, "project") THEN merged["project"]
      ELSE [str |-> <<"n", "e", "w", "-", "p", "r", "o", "j", "e", "c", "t">>]

\* answers.projectName || answers.name || answers.project || 'new-project'
ProjectNameOf(ans) ==
  IF HasTruthy(ans, "projectName") THEN ans["projectName"]
  ELSE IF HasTruthy(ans, "name") THEN ans["name"]
  ELSE IF HasTruthy(ans, "project") THEN ans["project"]
  ELSE Text(DefaultProjectName)

\* createProject's outputPath
OutputPathFor(opts, ans) ==
  IF HasTruthy(opts, "output") THEN Resolve(opts["output"].str)
  ELSE Resolve(TransformSlug(ProjectNameOf(ans).str))

DryRun == HasTruthy(options, "dryRun")

Template(values, questions, exclude, steps) ==
  [name |-> "t", values |-> values, questions |-> questions,
   exclude |-> exclude, steps |-> steps]

\* The runs explored.  Either the questions, the template flags, the defaults
\* and the output option vary, over a one-step template and no output
\* directory; or the steps, the excludes, force, dry-run and the output
\* directory vary, over one confirm question.
QuestionRuns ==
  { [template |-> Template(v, qs, <<>>, <<ReplaceEverything>>),
     options |-> Spread(o, f),
     dir |-> Dir(FALSE, EmptyFiles)] :
      v \in ValueSets, qs \in QuestionLists,
      o \in {b \in BuiltInOptionSets : DOMAIN b \subseteq {"output"}},
      f \in FlagSets }

StepRuns ==
  { [template |-> Template(EmptyObject, <<ConfirmFirst>>, ex, st),
     options |-> b,
     dir |-> d] :
      ex \in ExcludeLists, st \in StepLists,
      b \in {c \in BuiltInOptionSets : "output" \notin DOMAIN c},
      d \in InitialDirs }

\* a PQS object as constructed, nothing configured
DiscoveryIdle ==
  /\ dWorld = <<>>
  /\ registry = EmptyObject
  /\ dpc = "idle"
  /\ di = 1
  /\ dWarnings = 0
  /\ dSeen = <<>>

\* one invocation of the program at a time
Invocations == {1}

\* no helper is called on its own
HelpersIdle ==
  uCall = [fn |-> None, arg |-> None, done |-> FALSE, result |-> None]

\* the frame of an invocation that has called nothing yet
IdleFrame ==
  [pc |-> "idle", op |-> None,
   url |-> [form |-> None, repo |-> None, dotGit |-> FALSE, branch |-> None],
   loaded |-> EmptyObject,
   follows |-> [op |-> None, warned |-> FALSE],
   force |-> FALSE,
   index0 |-> [state |-> "absent", doc |-> EmptyObject],
   dirs0 |-> EmptyObject,
   maxAgeDays |-> 0,
   info |-> [exists |-> FALSE],
   warned |-> FALSE,
   clones |-> 0, count |-> 0, result |-> None]

\* no cache on disk yet and no call of the fetcher
CacheIdle ==
  /\ cIndex = [state |-> "absent", doc |-> EmptyObject]
  /\ cDirs = EmptyObject
  /\ cNow = 0
  /\ cCalls = 0
  /\ cCall = [p \in Invocations |-> IdleFrame]

\* no replace loop is under way
SubstIdle ==
  /\ sTree = EmptyFiles
  /\ sValues = EmptyObject
  /\ sFiles = EmptyFiles
  /\ sNext = 1
  /\ sRuns = <<>>

Init ==
  /\ pc = "start"
  /\ \E run \in QuestionRuns \cup StepRuns :
       /\ template = run.template
       /\ options = run.options
       /\ outDir0 = run.dir
  /\ outDir = outDir0
  /\ answers = EmptyObject
  /\ qi = 1
  /\ prompted = <<>>
  /\ outputPath = <<>>
  /\ si = 1
  /\ stepTrace = <<>>
  /\ console = <<>>
  /\ effects = <<>>
  /\ uuids = 0
  /\ SubstIdle
  /\ DiscoveryIdle
  /\ CacheIdle
  /\ HelpersIdle

\* loadConfig, discoverTemplates and this.templates.get(templateName):
\* discovery is best-effort, so the requested template is registered or not
LookupTemplate ==
  /\ pc = "start"
  /\ \E found \in BOOLEAN : pc' = IF found THEN "ask" ELSE "notfound"
  /\ UNCHANGED <<template, options, answers, qi, prompted, outputPath, outDir,
                 outDir0, si, stepTrace, console, effects>>
  /\ UNCHANGED <<uuids, offstage>>

Asking == pc = "ask" /\ qi <= Len(template.questions)

\* askQuestions, a question answered on the command line
TakeCliAnswer ==
  /\ Asking
  /\ LET key == CliKeyFor(CurrentQuestion, GetCliArgs(options))
     IN  /\ key # None
         /\ answers' = Spread(answers, CurrentQuestion.name :>
                                           GetCliArgs(options)[key])
  /\ qi' = qi + 1
  /\ UNCHANGED <<pc, template, options, prompted, outputPath, outDir, outDir0,
                 si, stepTrace, console, effects>>
  /\ UNCHANGED <<uuids, offstage>>

\* askQuestions, the prompt of the current question returns an answer
PromptAnswered ==
  /\ Asking
  /\ CliKeyFor(CurrentQuestion, GetCliArgs(options)) = None
  /\ \E a \in PromptAnswers(CurrentQuestion.type) :
       answers' = Spread(answers, CurrentQuestion.name :> a)
  /\ prompted' = Append(prompted, [q |-> qi, result |-> "answered"])
  /\ qi' = qi + 1
  /\ UNCHANGED <<pc, template, options, outputPath, outDir, outDir0, si,
                 stepTrace, console, effects>>
  /\ UNCHANGED <<uuids, offstage>>

\* the cancellation swallowed: askQuestions goes on to the next question
PromptCancelledContinues ==
  /\ pc = "ask" /\ qi <= Len(template.questions)
  /\ CliKeyFor(CurrentQuestion, GetCliArgs(options)) = None
  /\ prompted' = Append(prompted, [q |-> qi, result |-> "cancelled"])
  /\ qi' = qi + 1
  /\ UNCHANGED <<pc, template, options, answers, outputPath, outDir, outDir0,
                 si, stepTrace, console, effects>>
  /\ UNCHANGED <<uuids, offstage>>

\* askQuestions, the user cancels the prompt: ExitPromptError, process.exit(0)
PromptCancelled ==
  /\ Asking
  /\ CliKeyFor(CurrentQuestion, GetCliArgs(options)) = None
  /\ prompted' = Append(prompted, [q |-> qi, result |-> "cancelled"])
  /\ pc' = "exited"
  /\ UNCHANGED <<template, options, answers, qi, outputPath, outDir, outDir0,
                 si, stepTrace, console, effects>>
  /\ UNCHANGED <<uuids, offstage>>

\* askQuestions, the prompt fails with any other error, which is rethrown
PromptThrows ==
  /\ Asking
  /\ CliKeyFor(CurrentQuestion, GetCliArgs(options)) = None
  /\ prompted' = Append(prompted, [q |-> qi, result |-> "threw"])
  /\ pc' = "raised"
  /\ UNCHANGED <<template, options, answers, qi, outputPath, outDir, outDir0,
                 si, stepTrace, console, effects>>
  /\ UNCHANGED <<uuids, offstage>>

\* createProject, after askQuestions returned: determine the output path
\* (transformText throws when the project name is not a string)
ResolveOutputPath ==
  /\ pc = "ask"
  /\ qi > Len(template.questions)
  /\ IF HasTruthy(options, "output") \/ IsText(ProjectNameOf(answers))
     THEN /\ outputPath' = OutputPathFor(options, answers)
          /\ pc' = "guard"
     ELSE /\ outputPath' = outputPath
          /\ pc' = "raised"
  /\ UNCHANGED <<template, options, answers, qi, prompted, outDir, outDir0,
                 si, stepTrace, console, effects>>
  /\ UNCHANGED <<uuids, offstage>>

\* the check with the force option not consulted
GuardTripsIgnoringForce == outDir.exists /\ HasEntries(outDir)

\* createProject's check of the output directory
GuardTrips == outDir.exists /\ HasEntries(outDir) /\ ~HasTruthy(options, "force")

CheckOutputDirectory ==
  /\ pc = "guard"
  /\ pc' = IF GuardTrips THEN "aborted" ELSE "mkdir"
  /\ UNCHANGED <<template, options, answers, qi, prompted, outputPath, outDir,
                 outDir0, si, stepTrace, console, effects>>
  /\ UNCHANGED <<uuids, offstage>>

\* ensureDir without the dry-run test
EnsureOutputDirectoryAlways ==
  /\ pc = "mkdir"
  /\ outDir' = Dir(TRUE, outDir.files)
  /\ effects' = Append(effects, [kind |-> "ensureDir", step |-> 0])
  /\ pc' = "copy"
  /\ UNCHANGED <<template, options, answers, qi, prompted, outputPath,
                 outDir0, si, stepTrace, console>>
  /\ UNCHANGED <<uuids, offstage>>

\* if (!options.dryRun) await fs.ensureDir(outputPath)
EnsureOutputDirectory ==
  /\ pc = "mkdir"
  /\ IF DryRun
     THEN UNCHANGED <<outDir, effects>>
     ELSE /\ outDir' = Dir(TRUE, outDir.files)
          /\ effects' = Append(effects, [kind |-> "ensureDir", step |-> 0])
  /\ pc' = "copy"
  /\ UNCHANGED <<template, options, answers, qi, prompted, outputPath,
                 outDir0, si, stepTrace, console>>
  /\ UNCHANGED <<uuids, offstage>>

\* copyTemplate's filesToCopy
FilesToCopy(tree, excludePatterns) ==
  SelectSeq(GlobAllFiles(tree),
            LAMBDA file :
              ~\E i \in 1..Len(excludePatterns) :
                 ExcludedBy(file, NormalizeExclude(excludePatterns[i])))

\* copyTemplate
CopyTemplate ==
  /\ pc = "copy"
  /\ LET filesToCopy == FilesToCopy(TemplateTree, template.exclude)
     IN  IF DryRun
         THEN /\ console' = Append(console, [kind |-> "wouldCopy",
                                              files |-> filesToCopy])
              /\ UNCHANGED <<outDir, effects>>
         ELSE /\ outDir' = CopyInto(outDir, TemplateTree, Range(filesToCopy), <<>>)
              /\ effects' = effects \o
                   [i \in 1..Len(filesToCopy) |->
                      [kind |-> "copy", step |-> 0, file |-> filesToCopy[i]]]
              /\ UNCHANGED console
  /\ pc' = "steps"
  /\ UNCHANGED <<template, options, answers, qi, prompted, outputPath,
                 outDir0, si, stepTrace>>
  /\ UNCHANGED <<uuids, offstage>>

InSteps == pc = "steps" /\ si <= Len(template.steps)

CurrentStep == template.steps[si]

\* a loop that passes over a step
NextStepSkipping == si + 2

\* the for loop of createProject moves to the next step
NextStep == si + 1

Traced(outcome) == Append(stepTrace, [step |-> si, outcome |-> outcome])

\* processReplaceStep's filesToProcess: the matches of each pattern in turn
FilesToProcess(step, dir) ==
  Flatten([i \in 1..Len(step.files) |-> Glob(step.files[i], dir)])

\* processReplaceStep's loop over filesToProcess when generated identifiers
\* have been generated before: a file is read, substituted and written
\* back; a directory cannot be read and is skipped.  The result is the
\* files and the number of identifiers generated by then.
RECURSIVE RewriteAll(_, _, _, _)
RewriteAll(files, paths, values, generated) ==
  IF paths = <<>> THEN [files |-> files, generated |-> generated]
  ELSE LET path == paths[1]
           readable == path \in DOMAIN files
           done == IF readable
                   THEN [files EXCEPT
                           ![path] = PerformSubstitutions(files[path], values,
                                                          generated)]
                   ELSE files
           calls == IF readable THEN UuidCalls(files[path]) ELSE 0
       IN  RewriteAll(done, Tail(paths), values, generated + calls)

\* the output directory after processReplaceStep's loop
ReplaceResult(step, dir, values) ==
  Dir(dir.exists,
      RewriteAll(dir.files, FilesToProcess(step, dir), values, uuids).files)

\* processReplaceStep as createProject calls it, with values under answers
ReplaceStep ==
  /\ InSteps
  /\ CurrentStep.type = "replace"
  /\ LET filesToProcess == FilesToProcess(CurrentStep, outDir)
         values == Spread(template.values, answers)
         written == SelectSeq(filesToProcess,
                              LAMBDA path : path \in DOMAIN outDir.files)
     IN  IF DryRun
         THEN /\ console' = Append(console, [kind |-> "wouldReplace",
                                              step |-> si,
                                              files |-> filesToProcess])
              /\ stepTrace' = Traced("reported")
              /\ UNCHANGED <<outDir, effects, uuids>>
         ELSE /\ outDir' = ReplaceResult(CurrentStep, outDir, values)
              /\ uuids' = RewriteAll(outDir.files, filesToProcess, values,
                                         uuids).generated
              /\ effects' = effects \o
                   [i \in 1..Len(written) |->
                      [kind |-> "write", step |-> si, file |-> written[i]]]
              /\ stepTrace' = Traced("executed")
              /\ UNCHANGED console
  /\ si' = NextStep
  /\ UNCHANGED <<pc, template, options, answers, qi, prompted, outputPath,
                 outDir0>>
  /\ UNCHANGED offstage

\* processCommandStep / processCopyStep: the condition is present and false
StepSkipped ==
  /\ InSteps
  /\ CurrentStep.type \in {"command", "copy"}
  /\ ~EvalCondition(CurrentStep.condition, answers)
  /\ stepTrace' = Traced("skipped")
  /\ si' = NextStep
  /\ UNCHANGED <<pc, template, options, answers, qi, prompted, outputPath,
                 outDir, outDir0, console, effects>>
  /\ UNCHANGED <<uuids, offstage>>

CommandRuns ==
  /\ InSteps
  /\ CurrentStep.type = "command"
  /\ EvalCondition(CurrentStep.condition, answers)

\* processCommandStep in a dry run
CommandStepDryRun ==
  /\ CommandRuns
  /\ DryRun
  /\ console' = Append(console, [kind |-> "wouldRun", step |-> si,
                                  command |-> CurrentStep.command])
  /\ stepTrace' = Traced("reported")
  /\ si' = NextStep
  /\ UNCHANGED <<pc, template, options, answers, qi, prompted, outputPath,
                 outDir, outDir0, effects>>
  /\ UNCHANGED <<uuids, offstage>>

\* processCommandStep, execAsync resolves
CommandStepSucceeds ==
  /\ CommandRuns
  /\ ~DryRun
  /\ effects' = Append(effects, [kind |-> "exec", step |-> si,
                                  command |-> CurrentStep.command])
  /\ stepTrace' = Traced("executed")
  /\ si' = NextStep
  /\ UNCHANGED <<pc, template, options, answers, qi, prompted, outputPath,
                 outDir, outDir0, console>>
  /\ UNCHANGED <<uuids, offstage>>

\* the rejection of execAsync not caught: createProject rejects
CommandStepFailsAborting ==
  /\ pc = "steps" /\ si <= Len(template.steps)
  /\ CurrentStep.type = "command"
  /\ EvalCondition(CurrentStep.condition, answers)
  /\ ~DryRun
  /\ effects' = Append(effects, [kind |-> "exec", step |-> si,
                                  command |-> CurrentStep.command])
  /\ stepTrace' = Append(stepTrace, [step |-> si, outcome |-> "failed"])
  /\ pc' = "raised"
  /\ UNCHANGED <<template, options, answers, qi, prompted, outputPath,
                 outDir, outDir0, si, console>>
  /\ UNCHANGED <<uuids, offstage>>

\* processCommandStep, execAsync rejects (non-zero exit, or the shell could
\* not be started): the error is caught and printed
CommandStepFails ==
  /\ CommandRuns
  /\ ~DryRun
  /\ effects' = Append(effects, [kind |-> "exec", step |-> si,
                                  command |-> CurrentStep.command])
  /\ stepTrace' = Traced("failed")
  /\ si' = NextStep
  /\ UNCHANGED <<pc, template, options, answers, qi, prompted, outputPath,
                 outDir, outDir0, console>>
  /\ UNCHANGED <<uuids, offstage>>

\* getFilesToCopy: the files under the source directory, without those an
\* exclude pattern matches (the patterns are used as written)
GetFilesToCopy(tree, excludePatterns) ==
  IF excludePatterns = <<>> THEN GlobAllFiles(tree)
  ELSE SelectSeq(GlobAllFiles(tree),
                 LAMBDA file :
                   ~\E i \in 1..Len(excludePatterns) :
                      ExcludedBy(file, excludePatterns[i]))

\* step.destination || source
DestinationOf(step) ==
  IF step.destination # <<>> THEN step.destination ELSE step.source

CopyRuns ==
  /\ InSteps
  /\ CurrentStep.type = "copy"
  /\ EvalCondition(CurrentStep.condition, answers)

\* processCopyStep in a dry run
CopyStepDryRun ==
  /\ CopyRuns
  /\ DryRun
  /\ console' = Append(console, [kind |-> "wouldCopyStep", step |-> si,
                                  source |-> CurrentStep.source,
                                  destination |-> DestinationOf(CurrentStep)])
  /\ stepTrace' = Traced("reported")
  /\ si' = NextStep
  /\ UNCHANGED <<pc, template, options, answers, qi, prompted, outputPath,
                 outDir, outDir0, effects>>
  /\ UNCHANGED <<uuids, offstage>>

\* processCopyStep's source: a directory, a file, or missing
SourceKind(source) ==
  IF source \in SubDirs(TemplateTree) THEN "directory"
  ELSE IF source \in DOMAIN TemplateTree THEN "file"
  ELSE "missing"

\* the files processCopyStep copies, as paths in the output directory
CopyStepFiles(step) ==
  LET dest == DestinationOf(step)
      filesToCopy == GetFilesToCopy(FilesUnder(TemplateTree, step.source),
                                    step.exclude)
  IN  CASE SourceKind(step.source) = "directory" ->
             [i \in 1..Len(filesToCopy) |-> dest \o filesToCopy[i]]
        [] SourceKind(step.source) = "file" -> <<dest>>
        [] OTHER -> <<>>

\* the output directory after processCopyStep
CopyStepResult(step, dir) ==
  LET dest == DestinationOf(step)
      under == FilesUnder(TemplateTree, step.source)
  IN  CASE SourceKind(step.source) = "directory" ->
             CopyInto(dir, under,
                      Range(GetFilesToCopy(under, step.exclude)), dest)
        [] SourceKind(step.source) = "file" ->
             Dir(TRUE, Spread(dir.files, dest :> TemplateTree[step.source]))
        [] OTHER -> dir

\* processCopyStep: a directory is copied file by file, a file is copied
\* as it is, a source that does not exist is warned about
CopyStepRuns ==
  /\ CopyRuns
  /\ ~DryRun
  /\ LET copied == CopyStepFiles(CurrentStep)
     IN  /\ outDir' = CopyStepResult(CurrentStep, outDir)
         /\ effects' = effects \o
              [i \in 1..Len(copied) |->
                 [kind |-> "copy", step |-> si, file |-> copied[i]]]
  /\ stepTrace' = Traced(IF SourceKind(CurrentStep.source) = "missing"
                         THEN "warned" ELSE "executed")
  /\ si' = NextStep
  /\ UNCHANGED <<pc, template, options, answers, qi, prompted, outputPath,
                 outDir0, console>>
  /\ UNCHANGED <<uuids, offstage>>

\* createProject returns after the last step
Finish ==
  /\ pc = "steps"
  /\ si > Len(template.steps)
  /\ pc' = "done"
  /\ UNCHANGED <<template, options, answers, qi, prompted, outputPath, outDir,
                 outDir0, si, stepTrace, console, effects>>
  /\ UNCHANGED <<uuids, offstage>>

Next ==
  \/ LookupTemplate
  \/ TakeCliAnswer
  \/ PromptAnswered
  \/ PromptCancelled
  \/ PromptThrows
  \/ ResolveOutputPath
  \/ CheckOutputDirectory
  \/ EnsureOutputDirectory
  \/ CopyTemplate
  \/ ReplaceStep
  \/ StepSkipped
  \/ CommandStepDryRun
  \/ CommandStepSucceeds
  \/ CommandStepFails
  \/ CopyStepDryRun
  \/ CopyStepRuns
  \/ Finish

Spec == Init /\ [][Next]_vars

\* ------------------------------------- the replace loop over file content

\* the tokens the files are made of
TokenPool ==
  { Lit(<<"h", "i">>), Ph("name"), Call("SLUG", "name"),
    Call("UUID", ""), Call("UUID", "x"), Call("UUID_FIXED", "id"),
    Mark("#", "c"), Mark("^", "c"), Mark("/", "c") }

\* createProject is not running
PipelineIdle ==
  /\ pc = "idle"
  /\ template = Template(EmptyObject, <<>>, <<>>, <<>>)
  /\ options = EmptyObject
  /\ answers = EmptyObject
  /\ qi = 1
  /\ prompted = <<>>
  /\ outputPath = <<>>
  /\ outDir = Dir(FALSE, EmptyFiles)
  /\ outDir0 = Dir(FALSE, EmptyFiles)
  /\ si = 1
  /\ stepTrace = <<>>
  /\ console = <<>>
  /\ effects = <<>>

\* an output directory as copyTemplate filled it, and the values of the run
SubstInit ==
  /\ PipelineIdle
  /\ DiscoveryIdle
  /\ CacheIdle
  /\ HelpersIdle
  /\ uuids = 0
  /\ \E a \in SeqsUpTo(TokenPool, MaxTokens),
        b \in { <<Call("UUID_FIXED", "id"), Call("UUID_FIXED", "other")>>,
                <<Call("UUID", "x"), Ph("name"), Call("UUID", "")>> } :
       sTree = (<<"a.txt">> :> a) @@ (<<"b.txt">> :> b)
  /\ sValues \in { EmptyObject,
                    ("name" :> Text(FooBar)) @@ ("c" :> Bool(TRUE)),
                    ("c" :> Bool(FALSE)) @@ ("id" :> Text(<<"x">>)) }
  /\ sFiles = sTree
  /\ sNext = 1
  /\ sRuns = <<>>

\* filesToProcess of a replace step whose pattern matches every file
SubstOrder == GlobAllFiles(sTree)

\* one turn of processReplaceStep's loop: read, substitute, write back
SubstituteFile ==
  /\ sNext <= Len(SubstOrder)
  /\ LET done == RewriteAll(sFiles, <<SubstOrder[sNext]>>, sValues, uuids)
     IN  /\ sFiles' = done.files
         /\ uuids' = done.generated
  /\ sNext' = sNext + 1
  /\ UNCHANGED <<sTree, sValues, sRuns, outsideSubst>>

\* the loop is over; the same template is materialized again with the same
\* values by a later invocation, whose generator repeats no identifier
SubstNewRun ==
  /\ sNext > Len(SubstOrder)
  /\ Len(sRuns) < MaxRuns - 1
  /\ sRuns' = Append(sRuns, sFiles)
  /\ sFiles' = sTree
  /\ sNext' = 1
  /\ UNCHANGED <<sTree, sValues, uuids, outsideSubst>>

SubstNext ==
  \/ SubstituteFile
  \/ SubstNewRun

SubstSpec == SubstInit /\ [][SubstNext]_vars

\* ------------------------------------------------------ discoverTemplates

\* a template definition file pqs.config.js: the name it exports and whether
\* require() of it returns
Definition(name, loads) == [name |-> name, loads |-> loads]

\* a template location: whether isAvailable finds it, whether prepare
\* returns its path, whether the glob for definition files works, and the
\* definition files in the order the glob lists them
Source(available, prepares, searchable, defs) ==
  [available |-> available, prepares |-> prepares, searchable |-> searchable,
   defs |-> defs]

SourcePool ==
  LET app == Definition("app", TRUE)
      lib == Definition("lib", TRUE)
      broken == Definition("app", FALSE)
  IN  { Source(TRUE, TRUE, TRUE, <<app>>),
        Source(TRUE, TRUE, TRUE, <<lib>>),
        Source(TRUE, TRUE, TRUE, <<app, lib>>),
        Source(TRUE, TRUE, TRUE, <<broken, lib>>),
        Source(FALSE, TRUE, TRUE, <<app, lib>>),
        Source(TRUE, FALSE, TRUE, <<app, lib>>),
        Source(TRUE, TRUE, FALSE, <<app, lib>>) }

\* a search that gives up at the first definition that fails to load
FindTemplatesStoppingAtFailure(source, at) ==
  LET failed == {k \in 1..Len(source.defs) : ~source.defs[k].loads}
      upTo == IF failed = {} THEN Len(source.defs)
              ELSE (CHOOSE k \in failed : \A j \in failed : k <= j) - 1
  IN  [templates |-> [k \in 1..upTo |->
                        [name |-> source.defs[k].name, path |-> k, source |-> at]],
       warnings |-> IF failed = {} THEN 0 ELSE 1]

\* findTemplatesInDirectory for the source at index `at` of the locations:
\* the descriptors of the definitions that load, and the warnings logged
FindTemplatesInDirectory(source, at) ==
  IF ~source.searchable THEN [templates |-> <<>>, warnings |-> 1]
  ELSE LET all == [k \in 1..Len(source.defs) |->
                     [name |-> source.defs[k].name, path |-> k, source |-> at]]
       IN  [templates |-> SelectSeq(all, LAMBDA d : source.defs[d.path].loads),
            warnings |-> Cardinality({k \in 1..Len(source.defs) :
                                        ~source.defs[k].loads})]

\* TemplateSource.discoverTemplates
SourceDiscoverTemplates(source, at) ==
  IF ~source.prepares THEN [templates |-> <<>>, warnings |-> 1]
  ELSE FindTemplatesInDirectory(source, at)

\* for (const template of templates) this.templates.set(template.name, template)
RECURSIVE Register(_, _)
Register(templates, found) ==
  IF found = <<>> THEN templates
  ELSE Register(Spread(templates, found[1].name :> found[1]), Tail(found))

\* a pass that keeps what the pass before registered
KeptTemplates == registry

\* this.templates.clear()
ClearedTemplates == EmptyObject

DiscoveryInit ==
  /\ PipelineIdle
  /\ uuids = 0
  /\ SubstIdle
  /\ CacheIdle
  /\ HelpersIdle
  /\ dWorld \in SeqsUpTo(SourcePool, MaxLocations)
  /\ registry = EmptyObject
  /\ dpc = "idle"
  /\ di = 1
  /\ dWarnings = 0
  /\ dSeen = <<>>

\* discoverTemplates is called: the registry is emptied
StartDiscovery ==
  /\ dpc \in {"idle", "done"}
  /\ Len(dSeen) < MaxPasses
  /\ registry' = ClearedTemplates
  /\ di' = 1
  /\ dpc' = "sources"
  /\ UNCHANGED <<dWorld, dWarnings, dSeen, outsideDiscovery>>

\* the loop finds the source not available: a warning, and on to the next
SourceUnavailable ==
  /\ dpc = "sources"
  /\ di <= Len(dWorld)
  /\ ~dWorld[di].available
  /\ dWarnings' = dWarnings + 1
  /\ di' = di + 1
  /\ UNCHANGED <<dWorld, registry, dpc, dSeen, outsideDiscovery>>

\* the loop registers what the source discovers
SourceDiscovered ==
  /\ dpc = "sources"
  /\ di <= Len(dWorld)
  /\ dWorld[di].available
  /\ LET found == SourceDiscoverTemplates(dWorld[di], di)
     IN  /\ registry' = Register(registry, found.templates)
         /\ dWarnings' = dWarnings + found.warnings
  /\ di' = di + 1
  /\ UNCHANGED <<dWorld, dpc, dSeen, outsideDiscovery>>

\* the loop is over and discoverTemplates returns
FinishDiscovery ==
  /\ dpc = "sources"
  /\ di > Len(dWorld)
  /\ dpc' = "done"
  /\ dSeen' = Append(dSeen, registry)
  /\ UNCHANGED <<dWorld, registry, di, dWarnings, outsideDiscovery>>

\* between two passes a location appears or disappears
LocationChanges ==
  /\ dpc = "done"
  /\ Len(dSeen) < MaxPasses
  /\ \E i \in 1..Len(dWorld) :
       dWorld' = [dWorld EXCEPT ![i].available = ~@]
  /\ dpc' = "idle"
  /\ UNCHANGED <<registry, di, dWarnings, dSeen, outsideDiscovery>>

DiscoveryNext ==
  \/ StartDiscovery
  \/ SourceUnavailable
  \/ SourceDiscovered
  \/ FinishDiscovery
  \/ LocationChanges

DiscoverySpec == DiscoveryInit /\ [][DiscoveryNext]_vars

\* --------------------------------------- the cache of cloned repositories

\* default maxAgeDays of isCacheStale
StaleAfterDays == 7

\* a repository reference, as text
\*   form "https":  https://github.com/owner/<repo>[.git][#<branch>]
\*   form "scp":    git@github.com:owner/<repo>[.git][#<branch>]
Url(form, repo, dotGit, branch) ==
  [form |-> form, repo |-> repo, dotGit |-> dotGit, branch |-> branch]

UrlPool ==
  { Url("https", "a", FALSE, None),
    Url("scp", "a", TRUE, None),
    Url("scp", "a", TRUE, "main"),
    Url("scp", "b", TRUE, None) }

\* each of the six patterns is anchored at '$': a '#<branch>' suffix matches
\* none of them; the scp pattern asks for '.git', the github https one doesn't
IsGitUrl(location) ==
  /\ location.branch = None
  /\ \/ location.form = "https"
     \/ location.form = "scp" /\ location.dotGit

\* normalizeGitUrl without the '.git' step
NormalizeKeepingSuffix(gitUrl) == [gitUrl EXCEPT !.branch = None]

\* split('#')[0], then '.git' appended to a github/gitlab/bitbucket https URL
NormalizeGitUrl(gitUrl) ==
  [gitUrl EXCEPT !.branch = None,
                 !.dotGit = gitUrl.dotGit \/ gitUrl.form = "https"]

ExtractBranch(gitUrl) == gitUrl.branch

\* isGitUrl, then no '..' and no '//' in the text ('https://' holds one), and
\* at least 10 characters (every reference of UrlPool is longer)
ValidateGitUrl(gitUrl) ==
  /\ IsGitUrl(gitUrl)
  /\ gitUrl.form # "https"

\* TemplateSource.isAvailable of a remote source: the URL validates and
\* git --version answers; anything thrown on the way reads as false
IsAvailable(location, gitAvailable) ==
  ValidateGitUrl(location) /\ gitAvailable

\* readable part + md5 prefix, both computed from the normalized URL; the
\* digest is taken to tell any two normalized URLs apart
GenerateCacheKey(gitUrl) == NormalizeGitUrl(gitUrl)

\* a missing or unreadable index file reads as {}
LoadCacheIndex ==
  IF cIndex.state = "ok" THEN cIndex.doc ELSE EmptyObject

\* saveCacheIndex that never writes the file
SaveCacheIndexNowhere(index, written) == cIndex

\* saveCacheIndex that adds the document to what the file holds
SaveCacheIndexMerging(index, written) ==
  IF written THEN [state |-> "ok", doc |-> Spread(LoadCacheIndex, index)]
  ELSE cIndex

\* writeJson of the whole document; a failed write is logged and the file
\* stays as it was
SaveCacheIndex(index, written) ==
  IF written THEN [state |-> "ok", doc |-> index] ELSE cIndex

\* removeCacheEntry that leaves the directory in place
RemoveDirectoryKeeping(dirs, cacheKey) == dirs

\* fs.remove(cachePath): nothing happens when the path does not exist
RemoveDirectory(dirs, cacheKey) ==
  [k \in DOMAIN dirs \ {cacheKey} |-> dirs[k]]

\* getCacheInfo that looks at the index only
CacheInfoFromIndexOnly(gitUrl) ==
  LET cacheKey == GenerateCacheKey(gitUrl)
  IN  IF cacheKey \in DOMAIN LoadCacheIndex
      THEN Spread(LoadCacheIndex[cacheKey],
                  [path |-> cacheKey, exists |-> TRUE])
      ELSE [exists |-> FALSE]

\* getCacheInfo: the record with path and exists: true, or null, written
\* [exists |-> FALSE] as the callers test cacheInfo && cacheInfo.exists
CacheInfo(gitUrl) ==
  LET cacheKey == GenerateCacheKey(gitUrl)
  IN  IF cacheKey \in DOMAIN LoadCacheIndex /\ cacheKey \in DOMAIN cDirs
      THEN Spread(LoadCacheIndex[cacheKey],
                  [path |-> cacheKey, exists |-> TRUE])
      ELSE [exists |-> FALSE]

\* removeCacheEntry for each URL in turn: the index is loaded, the key
\* deleted and the document saved (written[key] tells whether the write
\* went through), then the directory is removed
RECURSIVE RemoveCacheEntries(_, _, _, _)
RemoveCacheEntries(indexFile, dirs, urls, written) ==
  IF urls = <<>> THEN [index |-> indexFile, dirs |-> dirs]
  ELSE LET cacheKey == GenerateCacheKey(Head(urls))
           loaded == IF indexFile.state = "ok" THEN indexFile.doc
                     ELSE EmptyObject
           index == [k \in DOMAIN loaded \ {cacheKey} |-> loaded[k]]
           saved == IF written[cacheKey]
                    THEN [state |-> "ok", doc |-> index]
                    ELSE indexFile
       IN  RemoveCacheEntries(saved, RemoveDirectory(dirs, cacheKey),
                              Tail(urls), written)

\* isCacheStale that counts an entry as stale from the threshold on
CacheStaleFromThreshold(gitUrl, maxAgeDays) ==
  LET cacheInfo == CacheInfo(gitUrl)
  IN  ~cacheInfo.exists \/ cNow - cacheInfo.lastUpdated >= maxAgeDays

\* isCacheStale: no cacheInfo, or now - lastUpdated > maxAge
CacheStale(gitUrl, maxAgeDays) ==
  LET cacheInfo == CacheInfo(gitUrl)
  IN  ~cacheInfo.exists \/ cNow - cacheInfo.lastUpdated > maxAgeDays

\* the test of cleanupStaleEntries with the missing directory left out
TooOld(maxAgeDays) ==
  {k \in DOMAIN LoadCacheIndex :
     cNow - LoadCacheIndex[k].lastUpdated > maxAgeDays}

\* the keys of the entries cleanupStaleEntries removes: older than
\* maxAgeDays, or listed with exists: false
EntriesToClean(maxAgeDays) ==
  {k \in DOMAIN LoadCacheIndex :
     \/ cNow - LoadCacheIndex[k].lastUpdated > maxAgeDays
     \/ k \notin DOMAIN cDirs}

\* cleanupOrphanedDirectories that removes nothing
NoDirectory == {}

\* cleanupOrphanedDirectories that removes every directory
EveryDirectory == DOMAIN cDirs

\* the directories of the cache root that are not keys of the index
OrphanedDirectories == DOMAIN cDirs \ DOMAIN LoadCacheIndex

\* between two calls
Resting(p) == cCall[p].pc \in {"idle", "returned", "raised"}

\* cloneOrGetCached hands cachePath to its caller: to the program, to
\* updateCachedRepository, which returns it, or to cloneAndValidate
ReturnCachePath(frame) ==
  IF frame.op \in {"cloneOrGetCached", "updateCachedRepository"}
  THEN [frame EXCEPT !.pc = "returned", !.result = "cachePath"]
  ELSE [frame EXCEPT !.pc = "validate"]

\* the two cleanups of the cache manager
Cleanups == {"cleanupStaleEntries", "cleanupOrphanedDirectories"}

\* history: the cleanup a cleanup is run straight after, and whether an
\* index write of that one failed
Follows(frame, request) ==
  IF request.op \in Cleanups /\ frame.op \in Cleanups
  THEN [op |-> frame.op, warned |-> frame.warned]
  ELSE IdleFrame.follows

\* what a caller may ask of the fetcher and of the cache manager
Requests ==
  { [op |-> op, url |-> gitUrl, force |-> force, maxAgeDays |-> 0] :
      op \in {"cloneOrGetCached", "cloneAndValidate"},
      gitUrl \in UrlPool, force \in BOOLEAN }
  \cup { [op |-> "cleanupStaleEntries", url |-> IdleFrame.url,
          force |-> FALSE, maxAgeDays |-> days] :
           days \in {0, StaleAfterDays} }
  \cup { [op |-> "cleanupOrphanedDirectories", url |-> IdleFrame.url,
          force |-> FALSE, maxAgeDays |-> 0] }
  \cup { [op |-> "isCacheStale", url |-> gitUrl, force |-> FALSE,
          maxAgeDays |-> StaleAfterDays] : gitUrl \in UrlPool }
  \cup { [op |-> "updateCachedRepository", url |-> gitUrl, force |-> FALSE,
          maxAgeDays |-> 0] : gitUrl \in UrlPool }

CacheInit ==
  /\ PipelineIdle
  /\ uuids = 0
  /\ SubstIdle
  /\ DiscoveryIdle
  /\ HelpersIdle
  /\ cIndex \in { [state |-> "absent", doc |-> EmptyObject],
                  [state |-> "corrupt", doc |-> EmptyObject] }
  /\ cDirs = EmptyObject
  /\ cNow = 0
  /\ cCalls = 0
  /\ cCall = [p \in Invocations |-> IdleFrame]

\* a caller invokes cloneOrGetCached, cloneAndValidate, a cleanup,
\* isCacheStale or updateCachedRepository
StartCall(p) ==
  /\ Resting(p)
  /\ cCalls < MaxCalls
  /\ \E request \in Requests :
       cCall' = [cCall EXCEPT ![p] =
                   [IdleFrame EXCEPT
                      !.pc = IF request.op \in {"cloneOrGetCached",
                                                "cloneAndValidate"}
                             THEN "preflight" ELSE request.op,
                      !.op = request.op,
                      !.url = request.url,
                      !.follows = Follows(cCall[p], request),
                      !.force = request.force,
                      !.maxAgeDays = request.maxAgeDays,
                      !.index0 = cIndex,
                      !.dirs0 = cDirs]]
  /\ cCalls' = cCalls + 1
  /\ UNCHANGED <<cIndex, cDirs, cNow>>
  /\ UNCHANGED outsideCache

\* updateCachedRepository: 'Repository is not cached' unless getCacheInfo
\* answers with an entry, else cloneOrGetCached with force: true
UpdateCachedRepository(p) ==
  /\ cCall[p].pc = "updateCachedRepository"
  /\ LET cacheInfo == CacheInfo(cCall[p].url)
     IN  cCall' = [cCall EXCEPT ![p] =
                     IF ~cacheInfo.exists
                     THEN [@ EXCEPT !.pc = "raised", !.result = "notCached"]
                     ELSE [@ EXCEPT !.pc = "preflight", !.force = TRUE]]
  /\ UNCHANGED <<cIndex, cDirs, cNow, cCalls>>
  /\ UNCHANGED outsideCache

\* validateGitUrl, then git --version
Preflight(p) ==
  /\ cCall[p].pc = "preflight"
  /\ \E gitAvailable \in BOOLEAN :
       cCall' = [cCall EXCEPT ![p] =
                   IF ~ValidateGitUrl(@.url)
                   THEN [@ EXCEPT !.pc = "raised", !.result = "invalidUrl"]
                   ELSE IF ~gitAvailable
                   THEN [@ EXCEPT !.pc = "raised", !.result = "noGit"]
                   ELSE [@ EXCEPT !.pc = "initialize"]]
  /\ UNCHANGED <<cIndex, cDirs, cNow, cCalls>>
  /\ UNCHANGED outsideCache

InitializeCache(p) ==
  /\ cCall[p].pc = "initialize"
  /\ \E written \in BOOLEAN :
       IF cIndex.state = "absent"
       THEN /\ cIndex' = SaveCacheIndex(EmptyObject, written)
            /\ cCall' = [cCall EXCEPT ![p].pc = "lookup",
                                      ![p].warned = @ \/ ~written]
       ELSE /\ cIndex' = cIndex
            /\ cCall' = [cCall EXCEPT ![p].pc = "lookup"]
  /\ UNCHANGED <<cDirs, cNow, cCalls>>
  /\ UNCHANGED outsideCache

\* getCacheInfo and the two tests on its answer
GetCacheInfo(p) ==
  /\ cCall[p].pc = "lookup"
  /\ LET cacheInfo == CacheInfo(cCall[p].url)
         frame == [cCall[p] EXCEPT !.info = cacheInfo]
     IN  cCall' = [cCall EXCEPT ![p] =
                     IF ~frame.force /\ cacheInfo.exists
                     THEN ReturnCachePath(frame)
                     ELSE IF frame.force /\ cacheInfo.exists
                     THEN [frame EXCEPT !.pc = "remove"]
                     ELSE [frame EXCEPT !.pc = "clone"]]
  /\ UNCHANGED <<cIndex, cDirs, cNow, cCalls>>
  /\ UNCHANGED outsideCache

\* force: the cached directory goes before the clone
RemoveCached(p) ==
  /\ cCall[p].pc = "remove"
  /\ cDirs' = RemoveDirectory(cDirs, GenerateCacheKey(cCall[p].url))
  /\ cCall' = [cCall EXCEPT ![p].pc = "clone"]
  /\ UNCHANGED <<cIndex, cNow, cCalls>>
  /\ UNCHANGED outsideCache

\* git clone refuses a target that is already there; whatever made it fail,
\* the target is removed and the failure raised
CloneRepository(p) ==
  /\ cCall[p].pc = "clone"
  /\ LET cacheKey == GenerateCacheKey(cCall[p].url)
     IN  \E remoteAnswers \in BOOLEAN, templates \in BOOLEAN :
           IF remoteAnswers /\ cacheKey \notin DOMAIN cDirs
           THEN /\ cDirs' = Spread(cDirs, cacheKey :> [templates |-> templates])
                /\ cCall' = [cCall EXCEPT ![p].pc = "update",
                                          ![p].clones = @ + 1]
           ELSE /\ cDirs' = RemoveDirectory(cDirs, cacheKey)
                /\ cCall' = [cCall EXCEPT ![p].pc = "raised",
                                          ![p].result = "cloneFailed",
                                          ![p].clones = @ + 1]
  /\ UNCHANGED <<cIndex, cNow, cCalls>>
  /\ UNCHANGED outsideCache

UpdateCacheEntry(p) ==
  /\ cCall[p].pc = "update"
  /\ LET gitUrl == cCall[p].url
         entry == [url |-> NormalizeGitUrl(gitUrl),
                   branch |-> ExtractBranch(gitUrl),
                   lastUpdated |-> cNow]
         index == Spread(LoadCacheIndex, GenerateCacheKey(gitUrl) :> entry)
     IN  \E written \in BOOLEAN :
           /\ cIndex' = SaveCacheIndex(index, written)
           /\ cCall' = [cCall EXCEPT
                          ![p] = ReturnCachePath(
                                   [@ EXCEPT !.warned = @ \/ ~written])]
  /\ UNCHANGED <<cDirs, cNow, cCalls>>
  /\ UNCHANGED outsideCache

\* a pqs.config.js at depth <= 2 of the checkout
ValidateTemplateRepository(p) ==
  /\ cCall[p].pc = "validate"
  /\ LET cacheKey == GenerateCacheKey(cCall[p].url)
         isValid == cacheKey \in DOMAIN cDirs /\ cDirs[cacheKey].templates
     IN  cCall' = [cCall EXCEPT ![p] =
                     IF isValid
                     THEN [@ EXCEPT !.pc = "returned", !.result = "cachePath"]
                     ELSE [@ EXCEPT !.pc = "evict"]]
  /\ UNCHANGED <<cIndex, cDirs, cNow, cCalls>>
  /\ UNCHANGED outsideCache

\* removeCacheEntry, and the throw of cloneAndValidate after it
RemoveCacheEntry(p) ==
  /\ cCall[p].pc = "evict"
  /\ \E written \in BOOLEAN :
       LET gitUrl == cCall[p].url
           after == RemoveCacheEntries(cIndex, cDirs, <<gitUrl>>,
                                       GenerateCacheKey(gitUrl) :> written)
       IN  /\ cIndex' = after.index
           /\ cDirs' = after.dirs
           /\ cCall' = [cCall EXCEPT ![p].pc = "raised",
                                     ![p].result = "noTemplates",
                                     ![p].warned = @ \/ ~written]
  /\ UNCHANGED <<cNow, cCalls>>
  /\ UNCHANGED outsideCache

\* cleanupStaleEntries: listCachedRepositories, then removeCacheEntry of
\* entry.url for every entry that is too old or has no directory
CleanupStaleEntries(p) ==
  /\ cCall[p].pc = "cleanupStaleEntries"
  /\ LET toClean == EntriesToClean(cCall[p].maxAgeDays)
         urls == [i \in 1..Cardinality(toClean) |->
                    LoadCacheIndex[SetToSeq(toClean)[i]].url]
     IN  \E written \in [toClean -> BOOLEAN] :
           LET after == RemoveCacheEntries(cIndex, cDirs, urls, written)
           IN  /\ cIndex' = after.index
               /\ cDirs' = after.dirs
               /\ cCall' = [cCall EXCEPT
                              ![p].pc = "returned",
                              ![p].count = Cardinality(toClean),
                              ![p].warned = \E k \in toClean : ~written[k]]
  /\ UNCHANGED <<cNow, cCalls>>
  /\ UNCHANGED outsideCache

\* cleanupOrphanedDirectories: every directory of the cache root that is no
\* key of the loaded index is removed
CleanupOrphanedDirectories(p) ==
  /\ cCall[p].pc = "cleanupOrphanedDirectories"
  /\ cDirs' = [k \in DOMAIN cDirs \ OrphanedDirectories |-> cDirs[k]]
  /\ cCall' = [cCall EXCEPT ![p].pc = "returned",
                            ![p].count = Cardinality(OrphanedDirectories)]
  /\ UNCHANGED <<cIndex, cNow, cCalls>>
  /\ UNCHANGED outsideCache

\* isCacheStale with its default or a given maxAgeDays
IsCacheStale(p) ==
  /\ cCall[p].pc = "isCacheStale"
  /\ cCall' = [cCall EXCEPT
                 ![p].pc = "returned",
                 ![p].info = CacheInfo(cCall[p].url),
                 ![p].result = IF CacheStale(cCall[p].url,
                                             cCall[p].maxAgeDays)
                               THEN "stale" ELSE "fresh"]
  /\ UNCHANGED <<cIndex, cDirs, cNow, cCalls>>
  /\ UNCHANGED outsideCache

\* between two runs of the program the index file stops being readable
\* (its permissions changed, or its content was damaged): readJson fails on
\* it until the file is written again
IndexUnreadable ==
  /\ \A p \in Invocations : Resting(p)
  /\ cIndex.state = "ok"
  /\ cIndex' = [cIndex EXCEPT !.state = "corrupt"]
  /\ cCall' = [p \in Invocations |-> IdleFrame]
  /\ UNCHANGED <<cDirs, cNow, cCalls>>
  /\ UNCHANGED outsideCache

\* time goes by between two calls: as many days as the staleness threshold,
\* or three more
DaysPass ==
  /\ \A p \in Invocations : Resting(p)
  /\ \E days \in {StaleAfterDays, StaleAfterDays + 3} :
       /\ cNow + days <= MaxDay
       /\ cNow' = cNow + days
  /\ UNCHANGED <<cIndex, cDirs, cCalls, cCall>>
  /\ UNCHANGED outsideCache

CacheNext ==
  \/ \E p \in Invocations :
       \/ StartCall(p)
       \/ Preflight(p)
       \/ InitializeCache(p)
       \/ GetCacheInfo(p)
       \/ RemoveCached(p)
       \/ CloneRepository(p)
       \/ UpdateCacheEntry(p)
       \/ ValidateTemplateRepository(p)
       \/ RemoveCacheEntry(p)
       \/ CleanupStaleEntries(p)
       \/ CleanupOrphanedDirectories(p)
       \/ IsCacheStale(p)
       \/ UpdateCachedRepository(p)
  \/ IndexUnreadable
  \/ DaysPass

CacheSpec == CacheInit /\ [][CacheNext]_vars

\* ---------------------------- two invocations of the program on one cache

\* Two processes run the program at the same time on the same cache root.
\* Each await of a handler is a point where the other process may run, so
\* the read and the write of the index in updateCacheEntry and
\* removeCacheEntry are steps of their own here.
Racers == {1, 2}

\* what each of the two asks of the fetcher
RaceRequests ==
  {request \in Requests :
     /\ request.op \in {"cloneOrGetCached", "cloneAndValidate"}
     /\ ValidateGitUrl(request.url)
     /\ ExtractBranch(request.url) = None}

RaceInit ==
  /\ PipelineIdle
  /\ uuids = 0
  /\ SubstIdle
  /\ DiscoveryIdle
  /\ HelpersIdle
  /\ cIndex = [state |-> "absent", doc |-> EmptyObject]
  /\ cDirs = EmptyObject
  /\ cNow = 0
  /\ cCalls = Cardinality(Racers)
  /\ \E requests \in [Racers -> RaceRequests] :
       cCall = [p \in Racers |->
                  [IdleFrame EXCEPT !.pc = "preflight",
                                    !.op = requests[p].op,
                                    !.url = requests[p].url,
                                    !.force = requests[p].force]]

\* updateCacheEntry up to its await of saveCacheIndex: the index is loaded
\* and the entry set in the loaded document
UpdateCacheEntryLoad(p) ==
  /\ cCall[p].pc = "update"
  /\ LET gitUrl == cCall[p].url
         entry == [url |-> NormalizeGitUrl(gitUrl),
                   branch |-> ExtractBranch(gitUrl),
                   lastUpdated |-> cNow]
     IN  cCall' = [cCall EXCEPT
                     ![p].pc = "saveUpdated",
                     ![p].loaded = Spread(LoadCacheIndex,
                                          GenerateCacheKey(gitUrl) :> entry)]
  /\ UNCHANGED <<cIndex, cDirs, cNow, cCalls>>
  /\ UNCHANGED outsideCache

\* updateCacheEntry from saveCacheIndex on
UpdateCacheEntrySave(p) ==
  /\ cCall[p].pc = "saveUpdated"
  /\ \E written \in BOOLEAN :
       /\ cIndex' = SaveCacheIndex(cCall[p].loaded, written)
       /\ cCall' = [cCall EXCEPT
                      ![p] = ReturnCachePath(
                               [@ EXCEPT !.warned = @ \/ ~written])]
  /\ UNCHANGED <<cDirs, cNow, cCalls>>
  /\ UNCHANGED outsideCache

\* removeCacheEntry up to its await of saveCacheIndex: the index is loaded
\* and the key deleted from the loaded document
RemoveCacheEntryLoad(p) ==
  /\ cCall[p].pc = "evict"
  /\ cCall' = [cCall EXCEPT
                 ![p].pc = "saveEvicted",
                 ![p].loaded =
                   [k \in DOMAIN LoadCacheIndex
                             \ {GenerateCacheKey(cCall[p].url)} |->
                      LoadCacheIndex[k]]]
  /\ UNCHANGED <<cIndex, cDirs, cNow, cCalls>>
  /\ UNCHANGED outsideCache

\* removeCacheEntry from saveCacheIndex on: the document is saved and the
\* directory removed; cloneAndValidate then throws
RemoveCacheEntrySave(p) ==
  /\ cCall[p].pc = "saveEvicted"
  /\ \E written \in BOOLEAN :
       /\ cIndex' = SaveCacheIndex(cCall[p].loaded, written)
       /\ cCall' = [cCall EXCEPT ![p].pc = "raised",
                                 ![p].result = "noTemplates",
                                 ![p].warned = @ \/ ~written]
  /\ cDirs' = RemoveDirectory(cDirs, GenerateCacheKey(cCall[p].url))
  /\ UNCHANGED <<cNow, cCalls>>
  /\ UNCHANGED outsideCache

RaceNext ==
  \E p \in Racers :
    \/ Preflight(p)
    \/ InitializeCache(p)
    \/ GetCacheInfo(p)
    \/ RemoveCached(p)
    \/ CloneRepository(p)
    \/ UpdateCacheEntryLoad(p)
    \/ UpdateCacheEntrySave(p)
    \/ ValidateTemplateRepository(p)
    \/ RemoveCacheEntryLoad(p)
    \/ RemoveCacheEntrySave(p)

RaceSpec == RaceInit /\ [][RaceNext]_vars

\* ------------------------------------------- the helpers, called directly

\* the names commander already gives to the built-in options of create
ConflictingOptions == {"output", "o", "force", "f", "dry-run", "d"}

\* questions as collectTemplateOptions reads them
OptionQuestionPool ==
  { [name |-> "projectName", argument |-> "name", shortArgument |-> "n"],
    [name |-> "out", argument |-> "output", shortArgument |-> "x"],
    [name |-> "owner", argument |-> "owner", shortArgument |-> "o"],
    [name |-> "plain", argument |-> None, shortArgument |-> None] }

\* the loop of collectTemplateOptions over the questions of the templates,
\* in order; allOptions is the Map built so far
RECURSIVE CollectTemplateOptions(_, _)
CollectTemplateOptions(questions, allOptions) ==
  IF questions = <<>> THEN allOptions
  ELSE LET question == Head(questions)
           long == question.argument
           short == question.shortArgument
           withLong ==
             IF long # None /\ long \notin ConflictingOptions
             THEN Spread(allOptions,
                         long :> [long |-> long, short |-> short,
                                  name |-> question.name])
             ELSE allOptions
           withShort ==
             IF /\ short # None
                /\ short \notin ConflictingOptions
                /\ long \notin ConflictingOptions
                /\ long \in DOMAIN withLong
             THEN [withLong EXCEPT ![long].short = short]
             ELSE withLong
       IN  CollectTemplateOptions(Tail(questions), withShort)

\* the spellings of two repositories: with and without '.git', with and
\* without a fragment, in both forms
Spellings ==
  { Url(form, repo, dotGit, branch) :
      form \in {"https", "scp"}, repo \in {"a", "b"},
      dotGit \in BOOLEAN, branch \in {None, "main"} }

MyProjectName ==
  <<"m", "y", " ", "p", "r", "o", "j", "e", "c", "t", " ", "n", "a", "m", "e">>

MyProject == <<"M", "y", " ", "P", "r", "o", "j", "e", "c", "t">>

HelloWorld ==
  <<"H", "e", "l", "l", "o", ",", " ", "W", "o", "r", "l", "d", "!">>

MyDashProject == <<"m", "y", "-", "p", "r", "o", "j", "e", "c", "t">>

TextPool ==
  { MyProjectName, MyProject, HelloWorld, MyDashProject,
    <<"_", "a", "-", "_", "b", " ">>, <<>> }

TransformationPool ==
  {"UPPER", "LOWER", "CAMEL", "KEBAB", "PASCAL", "SLUG", "NOPE"}

HelperCalls ==
  { [fn |-> "transformText", arg |-> [text |-> t, transformation |-> tr]] :
      t \in TextPool, tr \in TransformationPool }
  \cup { [fn |-> fn, arg |-> u] :
           fn \in {"normalizeGitUrl", "generateCacheKey"}, u \in Spellings }
  \cup { [fn |-> "collectTemplateOptions", arg |-> qs] :
           qs \in SeqsUpTo(OptionQuestionPool, MaxQuestions) }
  \cup { [fn |-> "getCliArgs", arg |-> Spread(b, f)] :
           b \in BuiltInOptionSets, f \in FlagSets }

HelpersInit ==
  /\ PipelineIdle
  /\ uuids = 0
  /\ SubstIdle
  /\ DiscoveryIdle
  /\ CacheIdle
  /\ \E call \in HelperCalls :
       uCall = [fn |-> call.fn, arg |-> call.arg, done |-> FALSE,
                result |-> None]

Pending(fn) == uCall.fn = fn /\ ~uCall.done

CallTransformText ==
  /\ Pending("transformText")
  /\ uCall' = [uCall EXCEPT
                 !.done = TRUE,
                 !.result = TransformText(uCall.arg.text,
                                          uCall.arg.transformation)]
  /\ UNCHANGED outsideHelpers

CallNormalizeGitUrl ==
  /\ Pending("normalizeGitUrl")
  /\ uCall' = [uCall EXCEPT !.done = TRUE,
                            !.result = NormalizeGitUrl(uCall.arg)]
  /\ UNCHANGED outsideHelpers

CallGenerateCacheKey ==
  /\ Pending("generateCacheKey")
  /\ uCall' = [uCall EXCEPT !.done = TRUE,
                            !.result = GenerateCacheKey(uCall.arg)]
  /\ UNCHANGED outsideHelpers

CallCollectTemplateOptions ==
  /\ Pending("collectTemplateOptions")
  /\ uCall' = [uCall EXCEPT
                 !.done = TRUE,
                 !.result = CollectTemplateOptions(uCall.arg, EmptyObject)]
  /\ UNCHANGED outsideHelpers

CallGetCliArgs ==
  /\ Pending("getCliArgs")
  /\ uCall' = [uCall EXCEPT !.done = TRUE, !.result = GetCliArgs(uCall.arg)]
  /\ UNCHANGED outsideHelpers

HelpersNext ==
  \/ CallTransformText
  \/ CallNormalizeGitUrl
  \/ CallGenerateCacheKey
  \/ CallCollectTemplateOptions
  \/ CallGetCliArgs

HelpersSpec == HelpersInit /\ [][HelpersNext]_vars

\* ---------------------------------------------------------------- claims

Force == HasTruthy(options, "force")

StepEffects(i) == {k \in 1..Len(effects) : effects[k].step = i}

\* C1: a step of any type whose condition is false against the answers is
\* passed over: no file is written, no command executed and nothing copied
\* for it, and the loop moves on to the next step.
C1_FalseConditionSkipsStep ==
  \A k \in 1..Len(stepTrace) :
    LET i == stepTrace[k].step
    IN  ~EvalCondition(template.steps[i].condition, answers) =>
          /\ StepEffects(i) = {}
          /\ si > i

\* C2: when the output directory exists with an entry and force is not set,
\* createProject stops at the check with the directory as it was, nothing
\* copied and no step reached; with force set it goes on to the copy phase.
C2_GuardAbortsUnlessForced ==
  (/\ pc \in {"aborted", "mkdir", "copy", "steps", "done"}
   /\ outDir0.exists
   /\ HasEntries(outDir0)) =>
     IF Force
     THEN pc # "aborted"
     ELSE /\ pc = "aborted"
          /\ outDir = outDir0
          /\ effects = <<>>
          /\ console = <<>>
          /\ stepTrace = <<>>

C2_Witness ==
  /\ pc = "aborted"
  /\ HasEntries(outDir0)
  /\ ~Force
  /\ template.steps # <<>>

\* C3: in a dry run the output directory stays as it was and no directory
\* is created, no file copied or written and no command executed.
C3_DryRunMutatesNothing ==
  DryRun => /\ outDir = outDir0
            /\ effects = <<>>

C3_Witness ==
  /\ DryRun
  /\ pc = "done"
  /\ ~outDir0.exists
  /\ \E k \in 1..Len(stepTrace) : template.steps[k].type = "replace"
  /\ \E k \in 1..Len(stepTrace) :
       /\ template.steps[k].type = "command"
       /\ stepTrace[k].outcome = "reported"

\* The output directory a real run (no dry-run option) has made of the
\* directory createProject started with, when its loop stands at step i:
\* ensureDir, the copy phase, then the steps before i with the same answers.
RECURSIVE RealRunDir(_)
RealRunDir(i) ==
  IF i = 1
  THEN CopyInto(Dir(TRUE, outDir0.files), TemplateTree,
                Range(FilesToCopy(TemplateTree, template.exclude)), <<>>)
  ELSE LET step == template.steps[i - 1]
           dir == RealRunDir(i - 1)
       IN  CASE step.type = "replace" ->
                  ReplaceResult(step, dir, Spread(template.values, answers))
             [] step.type = "copy" /\ EvalCondition(step.condition, answers) ->
                  CopyStepResult(step, dir)
             [] OTHER -> dir

\* a real run is where RealRunDir says it is
RealRunFollowsRealRunDir ==
  (~DryRun /\ pc = "steps") => outDir = RealRunDir(si)

\* the files a real run writes in replace step i
RealRunWrites(i) ==
  Range(FilesToProcess(template.steps[i], RealRunDir(i)))
    \cap DOMAIN RealRunDir(i).files

\* C4: what a dry run lists is what the real run from the same start does:
\* the copy list is the files the copy phase copies, and the files listed
\* for a replace step are the files that step rewrites.
C4_DryRunListsWhatRealRunDoes ==
  DryRun =>
    \A k \in 1..Len(console) :
      /\ console[k].kind = "wouldCopy" =>
           Range(console[k].files) =
             {p \in DOMAIN TemplateTree \cap DOMAIN RealRunDir(1).files :
                RealRunDir(1).files[p] = TemplateTree[p]}
      /\ console[k].kind = "wouldReplace" =>
           Range(console[k].files) \ SubDirs(RealRunDir(console[k].step).files)
             = RealRunWrites(console[k].step)

\* C5: the steps are taken one at a time in declared order, each once, none
\* before the copy phase is over, and the run ends with every step taken.
C5_StepsInDeclaredOrder ==
  /\ \A k \in 1..Len(stepTrace) : stepTrace[k].step = k
  /\ Len(stepTrace) <= Len(template.steps)
  /\ stepTrace # <<>> => pc \in {"steps", "done"}
  /\ pc = "steps" => si = Len(stepTrace) + 1
  /\ pc = "done" => Len(stepTrace) = Len(template.steps)
  /\ \A i, j \in 1..Len(effects) : i < j => effects[i].step <= effects[j].step
  /\ \A k \in 1..Len(console) :
       console[k].kind # "wouldCopy" => console[k].step > 0 /\ k > 1

C5_Witness ==
  /\ pc = "done"
  /\ Len(stepTrace) >= 2
  /\ \E k \in 1..Len(effects) : effects[k].step = 2
  /\ \E k \in 1..Len(effects) : effects[k].step = 1

\* C6: a command step that fails returns normally: the run is neither
\* aborted nor rolled back, and every later step is taken in order.
C6_FailedCommandDoesNotAbort ==
  \A k \in 1..Len(stepTrace) :
    stepTrace[k].outcome = "failed" =>
      /\ pc \in {"steps", "done"}
      /\ si > stepTrace[k].step
      /\ pc = "done" => Len(stepTrace) = Len(template.steps)
      /\ \A j \in 1..Len(stepTrace) : stepTrace[j].step = j
      /\ \A e \in 1..Len(effects) :
           effects[e].kind = "copy" => effects[e].file \in DOMAIN outDir.files

C6_Witness ==
  /\ pc = "done"
  /\ \E k \in 1..Len(stepTrace) :
       /\ stepTrace[k].outcome = "failed"
       /\ k < Len(stepTrace)
       /\ stepTrace[k + 1].outcome = "executed"

\* the answers collected from the questions before question i
AnswersBefore(i) ==
  [k \in {template.questions[j].name : j \in 1..(i - 1)} \cap DOMAIN answers |->
     answers[k]]

\* C7: a question whose condition is false for the answers of the earlier
\* questions is never prompted and leaves no key in the answers.
C7_FalseConditionQuestionNotAsked ==
  /\ \A k \in 1..Len(prompted) :
       EvalCondition(template.questions[prompted[k].q].condition,
                     AnswersBefore(prompted[k].q))
  /\ \A i \in 1..Len(template.questions) :
       (/\ i < qi
        /\ ~EvalCondition(template.questions[i].condition, AnswersBefore(i))) =>
          template.questions[i].name \notin DOMAIN answers

\* the CLI flag of a question: its argument name, or else its own name
FlagOf(question) ==
  IF question.argument # None THEN question.argument ELSE question.name

WasPrompted(i) == \E k \in 1..Len(prompted) : prompted[k].q = i

\* C8: a question whose flag was given on the command line is never
\* prompted, and once askQuestions is past it its answer is the flag's value.
C8_FlagSuppressesPrompt ==
  \A i \in 1..Len(template.questions) :
    LET question == template.questions[i]
    IN  FlagOf(question) \in DOMAIN options \ BuiltInOptions =>
          /\ ~WasPrompted(i)
          /\ (pc # "start" /\ i < qi) =>
               /\ question.name \in DOMAIN answers
               /\ answers[question.name] = options[FlagOf(question)]

C8_Witness ==
  /\ pc = "done"
  /\ Len(template.questions) >= 2
  /\ WasPrompted(1)
  /\ template.questions[2].argument = "name"
  /\ "name" \in DOMAIN options
  /\ answers["projectName"] = Text(MyApp)

\* the first of answers.projectName, answers.name, answers.project that is a
\* non-empty string
FirstNonEmptyName ==
  LET keys == <<"projectName", "name", "project">>
      set == {i \in 1..Len(keys) :
                keys[i] \in DOMAIN answers /\ answers[keys[i]] # Text(<<>>)}
  IN  IF set = {} THEN <<>>
      ELSE answers[keys[CHOOSE i \in set : \A j \in set : i <= j]].str

\* C9: the output path is the output option when given; else the slug of
\* the first non-empty of answers.projectName, .name, .project under the
\* working directory, or new-project; template values play no part
\* (values {name: 'x'}, projectName answered 'My-App' by flag: my-app).
C9_OutputPathResolution ==
  outputPath # <<>> =>
    /\ "output" \in DOMAIN options =>
         outputPath = Cwd \o <<options["output"].str>>
    /\ ("output" \notin DOMAIN options /\ FirstNonEmptyName = <<>>) =>
         outputPath = Cwd \o <<DefaultProjectName>>
    /\ ("output" \notin DOMAIN options /\ FirstNonEmptyName # <<>>) =>
         outputPath = Resolve(TransformSlug(FirstNonEmptyName))
    /\ ("output" \notin DOMAIN options /\ FirstNonEmptyName = MyApp) =>
         outputPath = Cwd \o << <<"m", "y", "-", "a", "p", "p">> >>
    /\ ("output" \notin DOMAIN options /\ FirstNonEmptyName = FooBar) =>
         outputPath = Cwd \o << <<"f", "o", "o", "-", "b", "a", "r">> >>

C9_Witness ==
  /\ outputPath = Cwd \o << <<"m", "y", "-", "a", "p", "p">> >>
  /\ "name" \in DOMAIN template.values
  /\ "projectName" \in DOMAIN answers
  /\ "name" \in DOMAIN options
  /\ "output" \notin DOMAIN options

\* C10: once the user has cancelled a prompt nothing else happens: that
\* prompt is the last, no output path is determined, the output directory
\* is not checked or touched, nothing is copied and no step is reached.
C10_CancelEndsTheRun ==
  \A k \in 1..Len(prompted) :
    prompted[k].result = "cancelled" =>
      /\ k = Len(prompted)
      /\ pc = "exited"
      /\ qi = prompted[k].q
      /\ outputPath = <<>>
      /\ outDir = outDir0
      /\ effects = <<>>
      /\ console = <<>>
      /\ stepTrace = <<>>

C10_Witness ==
  /\ pc = "exited"
  /\ qi < Len(template.questions)
  /\ template.steps # <<>>

\* what a replace step writes for a token of a file, by the claim: the
\* value of key, as it is or transformed
Resolved(token, value) ==
  IF "ph" \in DOMAIN token THEN Lit(StringOf(value))
  ELSE Lit(TransformText(StringOf(value), token.fn))

\* the key a placeholder token names: {{PQS:key}} or {{PQS:TRANSFORM(key)}}
KeyOf(token) == IF "ph" \in DOMAIN token THEN token.ph ELSE token.arg

\* a placeholder for a key, bare or under a text transformation
IsKeyToken(token) ==
  \/ "ph" \in DOMAIN token
  \/ "fn" \in DOMAIN token /\ token.fn \notin {"DATE", "UUID"} /\ token.arg # ""

\* C11: a replace step substitutes from the template's values overlaid by
\* the answers: in every file it rewrites, a placeholder whose key has an
\* answer becomes the answer, also when values has the key too, and a
\* placeholder whose key is only in values becomes the default.
C11_AnswersOverlayValues ==
  [][ (InSteps /\ CurrentStep.type = "replace" /\ ~DryRun)
      => \A p \in Range(FilesToProcess(CurrentStep, outDir))
                    \cap DOMAIN outDir.files :
           \A i \in 1..Len(outDir.files[p]) :
             LET token == outDir.files[p][i]
                 after == outDir'.files[p][i]
             IN  IsKeyToken(token)
                 => /\ KeyOf(token) \in DOMAIN answers
                       => after = Resolved(token, answers[KeyOf(token)])
                    /\ KeyOf(token) \in DOMAIN template.values \ DOMAIN answers
                       => after = Resolved(token, template.values[KeyOf(token)])
    ]_vars

\* a run whose replace step found "name" both answered and defaulted, with
\* different texts, and wrote the answer, bare and upper-cased
C11_Witness ==
  /\ pc = "done"
  /\ ~DryRun
  /\ "name" \in DOMAIN answers \cap DOMAIN template.values
  /\ answers["name"] = Text(FooBar)
  /\ template.values["name"] # answers["name"]
  /\ <<"src", "b.js">> \in DOMAIN outDir.files
  /\ outDir.files[<<"src", "b.js">>][1] = Lit(FooBar)
  /\ outDir.files[<<"src", "b.js">>][3] =
       Lit(<<"F", "O", "O", " ", "B", "A", "R">>)

\* the files of every run of the replace loop, the run under way last
RunFiles == Append(sRuns, sFiles)

\* the files run r has rewritten so far
DoneIn(r) ==
  IF r <= Len(sRuns) THEN DOMAIN sTree
  ELSE {SubstOrder[k] : k \in 1..(sNext - 1)}

\* C12: performSubstitutions leaves a token whose identifier has no value,
\* bare or under a transformation, exactly as it was, and leaves the text
\* outside tokens as it was.
C12_UnresolvedTokensKept ==
  \A r \in 1..Len(RunFiles) : \A p \in DoneIn(r) :
    \A i \in 1..Len(sTree[p]) :
      LET token == sTree[p][i]
          unresolved == IsKeyToken(token) /\ KeyOf(token) \notin DOMAIN sValues
      IN  ("lit" \in DOMAIN token \/ unresolved) => RunFiles[r][p][i] = token

\* a rewritten file that kept {{PQS:SLUG(name)}}, name having no value,
\* next to a token that was replaced
C12_Witness ==
  /\ sNext > 1
  /\ SubstOrder[1] = <<"a.txt">>
  /\ "name" \notin DOMAIN sValues
  /\ Len(sTree[<<"a.txt">>]) = 3
  /\ sTree[<<"a.txt">>][1] = Lit(<<"h", "i">>)
  /\ sTree[<<"a.txt">>][2] = Call("SLUG", "name")
  /\ sTree[<<"a.txt">>][3] = Call("UUID", "x")
  /\ sFiles[<<"a.txt">>] =
       <<Lit(<<"h", "i">>), Call("SLUG", "name"), UuidText(1)>>

\* the places <<path, index>> of the files run r has rewritten where the
\* template has the token
PlacesOf(r, IsToken(_)) ==
  UNION { { <<p, i>> : i \in {k \in 1..Len(sTree[p]) : IsToken(sTree[p][k])} } :
          p \in DoneIn(r) }

\* what run r wrote at a place
Written(r, place) == RunFiles[r][place[1]][place[2]]

IsUuidFixed(token) == "fn" \in DOMAIN token /\ token.fn = "UUID_FIXED"

\* C13: in one run every {{PQS:UUID_FIXED(n)}} of the same name n, in
\* whatever file, is replaced by the same identifier, different names get
\* different identifiers, and another run gets other identifiers.
C13_UuidFixedPerRun ==
  \A r \in 1..Len(RunFiles) : \A x \in PlacesOf(r, IsUuidFixed) :
    /\ "uuid" \in DOMAIN Written(r, x)
    /\ \A y \in PlacesOf(r, IsUuidFixed) :
         (sTree[x[1]][x[2]].arg = sTree[y[1]][y[2]].arg)
           <=> (Written(r, x) = Written(r, y))
    /\ \A q \in 1..Len(RunFiles) \ {r} : \A y \in PlacesOf(q, IsUuidFixed) :
         Written(r, x) # Written(q, y)

IsUuidCall(token) == token = Call("UUID", "")

\* C14: every {{PQS:UUID()}} of a content is replaced by a fresh identifier:
\* none is left in the output and two occurrences get two identifiers.
C14_UuidFreshPerOccurrence ==
  \A r \in 1..Len(RunFiles) : \A x \in PlacesOf(r, IsUuidCall) :
    /\ "uuid" \in DOMAIN Written(r, x)
    /\ \A y \in PlacesOf(r, IsUuidCall) \ {x} : Written(r, x) # Written(r, y)

\* the block pre-pass of the claim: a block opened by {{#PQS:c}} is replaced
\* by its body when c is truthy in the values and dropped otherwise, a block
\* opened by {{^PQS:c}} the other way round
RECURSIVE ResolveBlocks(_, _)
ResolveBlocks(content, values) ==
  IF content = <<>> THEN <<>>
  ELSE LET open == content[1]
           isOpen == "sigil" \in DOMAIN open /\ open.sigil \in {"#", "^"}
           closes == {j \in 2..Len(content) : content[j] = Mark("/", open.cond)}
           close == CHOOSE j \in closes : \A k \in closes : j <= k
           keep == (open.sigil = "#") <=> HasTruthy(values, open.cond)
       IN  IF isOpen /\ closes # {}
           THEN (IF keep THEN SubSeq(content, 2, close - 1) ELSE <<>>)
                \o ResolveBlocks(SubSeq(content, close + 1, Len(content)), values)
           ELSE <<open>> \o ResolveBlocks(Tail(content), values)

\* C15: the output of substituting a content is the substitution of the
\* content with its blocks resolved: {{#PQS:c}}body{{/PQS:c}} leaves body
\* iff c is truthy, {{^PQS:c}}body{{/PQS:c}} iff c is falsy or absent, and
\* the text around a block is as token substitution alone leaves it.
C15_BlockConditionals ==
  (sRuns = <<>> /\ sNext > 1)
  => sFiles[SubstOrder[1]] =
       PerformSubstitutions(ResolveBlocks(sTree[SubstOrder[1]], sValues),
                                sValues, 0)

\* C16: with the bare name secret.txt among the template's excludes, no file
\* named secret.txt is in the output after the copy phase, wherever the
\* template tree has one.
C16_ExcludedNameNeverCopied ==
  (/\ <<"secret.txt">> \in Range(template.exclude)
   /\ pc \in {"steps", "done"})
  => \A p \in DOMAIN outDir.files : p[Len(p)] # "secret.txt"

\* C35: the copy phase leaves out only files with a path segment equal to one
\* of the bare names excluded; with .git excluded, .gitignore is still
\* copied, and what lies under a directory named .git is not.
C35_BareNameExcludesWholeSegments ==
  [][(pc = "copy" /\ ~DryRun)
     => /\ \A f \in DOMAIN TemplateTree :
             f \notin DOMAIN outDir'.files
             => \E i \in 1..Len(template.exclude) :
                  \E j \in 1..Len(f) : <<f[j]>> = template.exclude[i]
        /\ <<".git">> \in Range(template.exclude)
           => /\ <<".gitignore">> \in DOMAIN outDir'.files
              /\ <<".git", "config">> \notin DOMAIN outDir'.files]_vars

\* the copy phase has run with .git excluded
C35_Witness ==
  /\ pc \in {"steps", "done"}
  /\ ~DryRun
  /\ <<".git">> \in Range(template.exclude)
  /\ <<".gitignore">> \in DOMAIN outDir.files
  /\ <<".git", "config">> \notin DOMAIN outDir.files

\* the source at location l hands its definitions over
Healthy(l) ==
  dWorld[l].available /\ dWorld[l].prepares /\ dWorld[l].searchable

\* the locations with a definition of name n that is handed over
Definers(n) ==
  {l \in 1..Len(dWorld) :
     Healthy(l) /\ Definition(n, TRUE) \in Range(dWorld[l].defs)}

\* C17: after a discovery pass the registry holds, for each name some
\* location defines, the descriptor from the last such location in
\* configuration order, and no name from an earlier pass besides.
C17_LastLocationWinsAndRebuilt ==
  dpc = "done"
  => /\ DOMAIN registry =
          {n \in {"app", "lib"} : Definers(n) # {}}
     /\ \A n \in DOMAIN registry :
          /\ registry[n].name = n
          /\ \A l \in Definers(n) : l <= registry[n].source
          /\ registry[n].source \in Definers(n)
          /\ registry[n].path \in DOMAIN dWorld[registry[n].source].defs
          /\ dWorld[registry[n].source].defs[registry[n].path] =
               Definition(n, TRUE)

\* two locations define app and the first also lib: the first pass took app
\* from the second location; the first location then went away, and the
\* second pass dropped lib
C17_Witness ==
  /\ dpc = "done"
  /\ Len(dSeen) = 2
  /\ DOMAIN dSeen[1] = {"app", "lib"}
  /\ dSeen[1]["app"].source = 2
  /\ dSeen[1]["lib"].source = 1
  /\ ~dWorld[1].available
  /\ DOMAIN registry = {"app"}
  /\ registry["app"].source = 2

\* C18: a source that is unavailable or fails to prepare and a definition
\* that fails to load add no descriptor, and every definition that loads in
\* a source that works is registered all the same; the pass ends without an
\* error, with a warning for each failure.
C18_DiscoveryFaultIsolated ==
  dpc = "done"
  => /\ \A l \in 1..Len(dWorld) : \A k \in 1..Len(dWorld[l].defs) :
          (Healthy(l) /\ dWorld[l].defs[k].loads)
          => dWorld[l].defs[k].name \in DOMAIN registry
     /\ \A n \in DOMAIN registry :
          /\ Healthy(registry[n].source)
          /\ dWorld[registry[n].source].defs[registry[n].path].loads

\* a pass over a source whose first definition fails to load and a source
\* that fails to prepare: the sibling definition is registered
C18_Witness ==
  /\ dpc = "done"
  /\ Len(dWorld) = 2
  /\ dWorld[1] = Source(TRUE, TRUE, TRUE,
                        <<Definition("app", FALSE), Definition("lib", TRUE)>>)
  /\ ~dWorld[2].prepares
  /\ DOMAIN registry = {"lib"}
  /\ dWarnings >= 2

\* the index record of a reference's cache key, in an index file
HasRecord(indexFile, gitUrl) ==
  /\ indexFile.state = "ok"
  /\ GenerateCacheKey(gitUrl) \in DOMAIN indexFile.doc

HasDirectory(dirs, gitUrl) == GenerateCacheKey(gitUrl) \in DOMAIN dirs

\* C19: a call of cloneOrGetCached made with force false, while the index
\* holds a record for the URL and its cache directory exists, returns the
\* cache path, runs no clone and leaves the index and the directories as
\* they were, whatever the age of the record.
C19_CacheHitReturnsCachedPath ==
  \A p \in Invocations :
    LET frame == cCall[p]
    IN  ( /\ frame.op = "cloneOrGetCached"
          /\ frame.pc \in {"returned", "raised"}
          /\ ~frame.force
          /\ HasRecord(frame.index0, frame.url)
          /\ HasDirectory(frame.dirs0, frame.url) )
        => /\ frame.pc = "returned"
           /\ frame.result = "cachePath"
           /\ frame.clones = 0
           /\ cIndex = frame.index0
           /\ cDirs = frame.dirs0

\* the same, for the calls whose reference carries a '#<branch>' fragment
C19_FragmentReferenceHit ==
  \A p \in Invocations :
    LET frame == cCall[p]
    IN  ( /\ frame.op = "cloneOrGetCached"
          /\ frame.pc \in {"returned", "raised"}
          /\ ~frame.force
          /\ frame.url.branch # None
          /\ HasRecord(frame.index0, frame.url)
          /\ HasDirectory(frame.dirs0, frame.url) )
        => frame.result = "cachePath"

C21_HttpsReferenceAccepted ==
  \A p \in Invocations :
    LET frame == cCall[p]
    IN  ( /\ frame.op \in {"cloneOrGetCached", "cloneAndValidate"}
          /\ frame.url.form = "https"
          /\ frame.url.branch = None )
        => /\ IsAvailable(frame.url, TRUE)
           /\ frame.result # "invalidUrl"

\* C22: a reference with a '#<branch>' fragment is classified as remote,
\* resolving it does not end in the invalid-URL error, and the record a
\* clone of it stores carries that branch.
C22_BranchReferenceResolved ==
  \A p \in Invocations :
    LET frame == cCall[p]
    IN  ( /\ frame.op \in {"cloneOrGetCached", "cloneAndValidate"}
          /\ frame.url.branch # None )
        => /\ IsGitUrl(frame.url)
           /\ frame.result # "invalidUrl"
           /\ ( /\ frame.result = "cachePath"
                /\ frame.clones > 0
                /\ HasRecord(cIndex, frame.url) )
              => cIndex.doc[GenerateCacheKey(frame.url)].branch
                   = frame.url.branch

\* two references that spell the same repository: they differ in the
\* fragment, or in the '.git' suffix of a github https URL
SameRepository(a, b) ==
  /\ a.form = b.form
  /\ a.repo = b.repo
  /\ a.form = "https" \/ a.dotGit = b.dotGit

\* C23: normalizeGitUrl applied to its own result changes nothing, and any
\* two spellings of one repository have the same generateCacheKey.
C23_NormalizeIdempotentKeyShared ==
  /\ (uCall.fn = "normalizeGitUrl" /\ uCall.done)
       => NormalizeGitUrl(uCall.result) = uCall.result
  /\ (uCall.fn = "generateCacheKey" /\ uCall.done)
       => \A other \in Spellings :
            SameRepository(uCall.arg, other)
              => GenerateCacheKey(other) = uCall.result

\* the key of https://github.com/owner/a#main was computed
C23_Witness ==
  /\ uCall.fn = "generateCacheKey"
  /\ uCall.done
  /\ uCall.arg = Url("https", "a", FALSE, "main")
  /\ uCall.result = GenerateCacheKey(Url("https", "a", TRUE, None))

\* C24: collectTemplateOptions yields no option whose long or short name is
\* one of output/o, force/f, dry-run/d, and getCliArgs passes none of
\* output, force, dryRun on.
C24_BuiltInFlagsReserved ==
  /\ (uCall.fn = "collectTemplateOptions" /\ uCall.done)
       => \A o \in DOMAIN uCall.result :
            /\ uCall.result[o].long \notin ConflictingOptions
            /\ uCall.result[o].short \notin ConflictingOptions
  /\ (uCall.fn = "getCliArgs" /\ uCall.done)
       => DOMAIN uCall.result \cap BuiltInOptions = {}

\* the getCliArgs half of C24, on its own
C24_CliArgsWithoutBuiltIns ==
  (uCall.fn = "getCliArgs" /\ uCall.done)
    => DOMAIN uCall.result \cap BuiltInOptions = {}

\* C25: CAMEL('my project name') = 'myProjectName', KEBAB('My Project') =
\* 'my-project', SLUG('Hello, World!') = 'hello-world' and
\* PASCAL('my-project') = 'MyProject'.
C25_ReferenceTransformations ==
  (uCall.fn = "transformText" /\ uCall.done) =>
    LET text == uCall.arg.text
        transformation == uCall.arg.transformation
    IN  /\ (text = MyProjectName /\ transformation = "CAMEL")
             => uCall.result = <<"m", "y", "P", "r", "o", "j", "e", "c", "t",
                                 "N", "a", "m", "e">>
        /\ (text = MyProject /\ transformation = "KEBAB")
             => uCall.result = MyDashProject
        /\ (text = HelloWorld /\ transformation = "SLUG")
             => uCall.result = <<"h", "e", "l", "l", "o", "-", "w", "o", "r",
                                 "l", "d">>
        /\ (text = MyDashProject /\ transformation = "PASCAL")
             => uCall.result = <<"M", "y", "P", "r", "o", "j", "e", "c", "t">>

\* PASCAL('my-project') was computed
C25_Witness ==
  /\ uCall.fn = "transformText"
  /\ uCall.done
  /\ uCall.arg.text = MyDashProject
  /\ uCall.arg.transformation = "PASCAL"
  /\ Len(uCall.result) = 9

\* the records of an index file, as the cache manager reads them
RecordsOf(indexFile) ==
  IF indexFile.state = "ok" THEN indexFile.doc ELSE EmptyObject

\* C26: getCacheInfo(url) answers with the entry exactly when the index has
\* a record under the URL's key and the cache directory of that key exists;
\* in the three other combinations it answers null.
C26_CacheInfoIffRecordAndDirectory ==
  [][ \A p \in Invocations :
        cCall[p].pc = "lookup" =>
          LET gitUrl == cCall[p].url
              both == HasRecord(cIndex, gitUrl) /\ HasDirectory(cDirs, gitUrl)
              info == cCall'[p].info
          IN  /\ info.exists <=> both
              /\ info.exists =>
                   /\ info.path = GenerateCacheKey(gitUrl)
                   /\ info.lastUpdated
                        = cIndex.doc[GenerateCacheKey(gitUrl)].lastUpdated
    ]_vars

\* a lookup answered null for a record whose directory is gone
C26_Witness ==
  \E p \in Invocations :
    /\ cCall[p].pc = "clone"
    /\ ~cCall[p].force
    /\ ~cCall[p].info.exists
    /\ HasRecord(cIndex, cCall[p].url)
    /\ ~HasDirectory(cDirs, cCall[p].url)

\* C27: on a miss or with force, no directory is left at the cache path
\* when the clone runs, and after a successful clone the index holds a
\* record for the URL with a fresh lastUpdated, backed by the directory.
C27_CloneIntoClearedPath ==
  [][ \A p \in Invocations :
        LET gitUrl == cCall[p].url
            cacheKey == GenerateCacheKey(gitUrl)
        IN  /\ cCall[p].pc = "clone" => ~HasDirectory(cDirs, gitUrl)
            /\ cCall[p].pc = "update" =>
                 /\ HasRecord(cIndex', gitUrl)
                 /\ cIndex'.doc[cacheKey].lastUpdated = cNow
                 /\ HasDirectory(cDirs', gitUrl)
    ]_vars

\* the first half of C27 on its own: no directory at the path of a clone
C27_NoDirectoryAtClone ==
  \A p \in Invocations :
    cCall[p].pc = "clone" => ~HasDirectory(cDirs, cCall[p].url)

\* C28: a call whose clone failed ends raised with the clone failure, no
\* directory is left at the cache path, and the index record of the URL
\* is what it was before the call: none gained, no timestamp renewed.
C28_FailedCloneLeavesNothing ==
  \A p \in Invocations :
    LET frame == cCall[p]
        cacheKey == GenerateCacheKey(frame.url)
    IN  frame.result = "cloneFailed" =>
          /\ frame.pc = "raised"
          /\ ~HasDirectory(cDirs, frame.url)
          /\ HasRecord(cIndex, frame.url) <=> HasRecord(frame.index0, frame.url)
          /\ HasRecord(cIndex, frame.url) =>
               cIndex.doc[cacheKey] = frame.index0.doc[cacheKey]

\* a forced re-clone failed: the directory is gone, the old record stays
C28_Witness ==
  \E p \in Invocations :
    /\ cCall[p].result = "cloneFailed"
    /\ cCall[p].force
    /\ HasDirectory(cCall[p].dirs0, cCall[p].url)
    /\ HasRecord(cIndex, cCall[p].url)
    /\ ~HasDirectory(cDirs, cCall[p].url)

C30_CleanupOrphaned ==
  [][ \A p \in Invocations :
        cCall[p].pc = "cleanupOrphanedDirectories" =>
          /\ cCall'[p].pc = "returned"
          /\ \A k \in DOMAIN cDirs' : k \in DOMAIN RecordsOf(cIndex')
          /\ cIndex' = cIndex
          /\ \A k \in DOMAIN cDirs \cap DOMAIN RecordsOf(cIndex) :
               /\ k \in DOMAIN cDirs'
               /\ cDirs'[k] = cDirs[k]
          /\ cCall'[p].count = Cardinality(DOMAIN cDirs \ DOMAIN cDirs')
    ]_vars

\* one directory without a record was removed, one with a record kept
C30_Witness ==
  \E p \in Invocations :
    /\ cCall[p].op = "cleanupOrphanedDirectories"
    /\ cCall[p].pc = "returned"
    /\ cCall[p].count = 1
    /\ Cardinality(DOMAIN cCall[p].dirs0) = 2
    /\ Cardinality(DOMAIN cDirs) = 1
    /\ DOMAIN cDirs \subseteq DOMAIN RecordsOf(cIndex)

\* the part of a text before its first '-', '_' or whitespace character
RECURSIVE FirstRun(_)
FirstRun(text) ==
  IF text = <<>> \/ text[1] \in WordBreaks THEN <<>>
  ELSE <<text[1]>> \o FirstRun(Tail(text))

\* C36: CAMEL of a text begins with the first run of the text in lower
\* case.
C36_CamelLowersFirstRun ==
  (/\ uCall.fn = "transformText"
   /\ uCall.done
   /\ uCall.arg.transformation = "CAMEL")
  => IsPrefix(ToLowerCase(FirstRun(uCall.arg.text)), uCall.result)

\* C40: without an output option, the output path createProject derives is
\* a directory below the working directory, never the working directory
\* itself.
C40_DerivedPathBelowCwd ==
  (/\ pc \in {"guard", "copy", "steps", "done"}
   /\ ~HasTruthy(options, "output"))
  => /\ outputPath # Cwd
     /\ IsPrefix(Cwd, outputPath)

\* C32: isCacheStale(url, maxAgeDays) answers true exactly when the index
\* has no record under the URL's key, or the cache directory of the key is
\* missing, or the record is older than maxAgeDays days; a record aged
\* exactly maxAgeDays is not stale.  It changes nothing.
C32_StaleIffMissingOrOlder ==
  [][ \A p \in Invocations :
        cCall[p].pc = "isCacheStale" =>
          LET gitUrl == cCall[p].url
              cacheKey == GenerateCacheKey(gitUrl)
              cached == HasRecord(cIndex, gitUrl) /\ HasDirectory(cDirs, gitUrl)
          IN  /\ cCall'[p].pc = "returned"
              /\ cCall'[p].result \in {"stale", "fresh"}
              /\ cCall'[p].result = "stale"
                 <=> \/ ~cached
                     \/ cNow - cIndex.doc[cacheKey].lastUpdated
                          > cCall[p].maxAgeDays
              /\ (/\ cached
                  /\ cNow - cIndex.doc[cacheKey].lastUpdated
                       = cCall[p].maxAgeDays)
                 => cCall'[p].result = "fresh"
              /\ cIndex' = cIndex
              /\ cDirs' = cDirs
    ]_vars

\* an entry aged exactly the default threshold was found not stale
C32_Witness ==
  \E p \in Invocations :
    /\ cCall[p].op = "isCacheStale"
    /\ cCall[p].pc = "returned"
    /\ cCall[p].result = "fresh"
    /\ cCall[p].info.exists
    /\ cCall[p].maxAgeDays = StaleAfterDays
    /\ cNow - cCall[p].info.lastUpdated = StaleAfterDays

\* an entry ten days old was found stale under the default threshold
C32_TenDaysOld ==
  \E p \in Invocations :
    /\ cCall[p].op = "isCacheStale"
    /\ cCall[p].pc = "returned"
    /\ cCall[p].result = "stale"
    /\ cCall[p].info.exists
    /\ cCall[p].maxAgeDays = StaleAfterDays
    /\ cNow - cCall[p].info.lastUpdated = StaleAfterDays + 3

\* C33: updateCacheEntry(url) completes without raising whether or not the
\* index could be saved, and a getCacheInfo(url) that follows it, with the
\* cache directory in place, answers with the entry.
C33_UpdateVisibleAfterFailedSave ==
  [][ \A p \in Invocations :
        cCall[p].pc = "update" =>
          /\ cCall'[p].pc \in {"returned", "validate"}
          /\ HasDirectory(cDirs', cCall[p].url)
             => CacheInfo(cCall[p].url)'.exists
    ]_vars

\* the index keys and the directories of the cache root are the same set
KeysAreDirectories == DOMAIN RecordsOf(cIndex) = DOMAIN cDirs

C31_StaleAloneLeavesDirectory ==
  \E p \in Invocations :
    /\ cCall[p].pc = "returned"
    /\ cCall[p].op = "cleanupStaleEntries"
    /\ cCall[p].follows.op = None
    /\ ~cCall[p].warned
    /\ DOMAIN cDirs \ DOMAIN RecordsOf(cIndex) # {}

\* cleanupOrphanedDirectories on its own has left a record without a
\* directory
C31_OrphanedAloneLeavesRecord ==
  \E p \in Invocations :
    /\ cCall[p].pc = "returned"
    /\ cCall[p].op = "cleanupOrphanedDirectories"
    /\ cCall[p].follows.op = None
    /\ DOMAIN RecordsOf(cIndex) \ DOMAIN cDirs # {}

\* the index keys and the directories agreed when the call began
AgreedAtStart(frame) == DOMAIN RecordsOf(frame.index0) = DOMAIN frame.dirs0

C37_FailedRecloneLeavesRecord ==
  \E p \in Invocations :
    /\ cCall[p].pc = "raised"
    /\ cCall[p].result = "cloneFailed"
    /\ ~cCall[p].warned
    /\ AgreedAtStart(cCall[p])
    /\ HasRecord(cIndex, cCall[p].url)
    /\ ~HasDirectory(cDirs, cCall[p].url)

\* the records the index file holds, whether or not it can be read
FileRecords(indexFile) ==
  IF indexFile.state = "absent" THEN EmptyObject ELSE indexFile.doc

\* key k has the same value, or none, in objects a and b
SameAt(a, b, k) ==
  /\ k \in DOMAIN a <=> k \in DOMAIN b
  /\ k \in DOMAIN a => a[k] = b[k]

\* C39: updateCacheEntry(url) and removeCacheEntry(url) leave the record
\* and the directory of every key other than url's own as they were, also
\* when the index file cannot be read.
C39_OtherKeysUntouched ==
  [][ \A p \in Invocations :
        cCall[p].pc \in {"update", "evict"} =>
          \A k \in (DOMAIN FileRecords(cIndex) \cup DOMAIN cDirs)
                     \ {GenerateCacheKey(cCall[p].url)} :
            /\ SameAt(FileRecords(cIndex), FileRecords(cIndex'), k)
            /\ SameAt(cDirs, cDirs', k)
    ]_vars

\* C34: a write of the index by updateCacheEntry or removeCacheEntry puts
\* the writer's whole document in the file, whatever another invocation
\* wrote since the writer read it: the writer's own record is in it as the
\* writer set it (or out of it, for removeCacheEntry), and a record that
\* was written under another key in between is in it only if the writer
\* had read it.
C34_LastWriterWins ==
  [][ \A p \in Racers :
        (/\ cCall[p].pc \in {"saveUpdated", "saveEvicted"}
         /\ cCall'[p].pc # cCall[p].pc
         /\ ~cCall'[p].warned)
        => LET cacheKey == GenerateCacheKey(cCall[p].url)
           IN  /\ cIndex'.state = "ok"
               /\ cIndex'.doc = cCall[p].loaded
               /\ IF cCall[p].pc = "saveUpdated"
                  THEN /\ cacheKey \in DOMAIN cIndex'.doc
                       /\ cIndex'.doc[cacheKey].url
                            = NormalizeGitUrl(cCall[p].url)
                  ELSE cacheKey \notin DOMAIN cIndex'.doc
               /\ \A k \in DOMAIN RecordsOf(cIndex) \ {cacheKey} :
                    k \in DOMAIN cIndex'.doc <=> k \in DOMAIN cCall[p].loaded
    ]_vars

\* both invocations cloned, each a repository of its own, and wrote the
\* index without a failure, and the record of one of them is not in it
C34_Witness ==
  /\ \A p \in Racers :
       /\ cCall[p].pc = "returned"
       /\ cCall[p].op = "cloneOrGetCached"
       /\ cCall[p].result = "cachePath"
       /\ cCall[p].clones = 1
       /\ ~cCall[p].warned
  /\ GenerateCacheKey(cCall[1].url) # GenerateCacheKey(cCall[2].url)
  /\ \E p \in Racers :
       /\ ~HasRecord(cIndex, cCall[p].url)
       /\ \A q \in Racers \ {p} : HasRecord(cIndex, cCall[q].url)

\* both invocations call cloneOrGetCached, without force, for one URL, and
\* every index write so far went through
SameUrlRace ==
  /\ \A p \in Racers :
       /\ cCall[p].op = "cloneOrGetCached"
       /\ ~cCall[p].force
       /\ ~cCall[p].warned
  /\ GenerateCacheKey(cCall[1].url) = GenerateCacheKey(cCall[2].url)

\* C38: when two invocations resolve the same uncached URL at the same
\* time, the cache path a cloneOrGetCached has returned exists from then
\* on, and once both are through no record of the index is without its
\* directory.
C38_ReturnedPathStays ==
  SameUrlRace
  => /\ \A p \in Racers :
          cCall[p].result = "cachePath" => HasDirectory(cDirs, cCall[p].url)
     /\ (\A p \in Racers : Resting(p))
        => DOMAIN RecordsOf(cIndex) \subseteq DOMAIN cDirs

====
